---- MODULE Spec2Model ----
(***************************************************************************)
(* Distributed Transaction Coordinator of the multi-connection registry    *)
(* (MultiConnectionDatabaseManager), its scoped wrapper                    *)
(* (DistributedTransaction) and the Table Manager create operations that   *)
(* run on the registry's connections.                                      *)
(*                                                                         *)
(* Threads call the public API; every per-connection sqlite3_exec and every *)
(* mutex acquisition is one step, so calls of different threads interleave *)
(* exactly where the code lets them.                                       *)
(***************************************************************************)
EXTENDS Integers, Sequences, FiniteSets, TLC

\* Three tables, three connections: db_paths_ holds USERS, ORDERS, PRODUCTS.
NumConns == 3
\* Bounds of the model.
NumThreads == 2
MaxRows == 1
MaxVal == 1

\* connections_ in the (fixed) order in which the three loops iterate it.
Conns == 1..NumConns
Threads == 1..NumThreads
\* Payloads of the records a create operation inserts.
Vals == 1..MaxVal

\* std::mutex::lock() by the thread that already owns the mutex is undefined
\* behaviour: the thread blocks forever, the implementation detects the
\* deadlock and throws std::system_error, or the lock is taken a second time.
RelockOutcomes == {"deadlock", "throw", "recursive"}

VARIABLES
    in_distributed_transaction, \* MultiConnectionDatabaseManager::in_distributed_transaction_
    mutexOwner,                 \* transaction_mutex_: owning thread, 0 when free
    mutexDepth,                 \* transaction_mutex_: times the owner holds it
    txn,                        \* per connection: who opened its transaction (ByCall, ByObject), 0 when none
    db,                         \* per connection: committed contents of its table
    view,                       \* per connection: contents the connection sees (with uncommitted rows)
    pc,                         \* per thread: where the thread is
    via,                        \* per thread: the public entry point it came through
    idx,                        \* per thread: position of the loop over connections_
    log,                        \* per thread: commands its current call issued to connections
    obj,                        \* per thread: its DistributedTransaction object
    termAtCall,                 \* per thread: its object was committed or rolled back when the running member function was called
    obs,                        \* the call that returned in the last step, if one did
    snap,                       \* history: table contents when the running begin took the mutex
    created,                    \* history: rows created while the transaction was Active
    txnOwner,                   \* history: thread whose begin started the current transaction
    clean,                      \* history: no create during a coordinator call and no failed COMMIT in the transaction
    trueBegins,                 \* history: begins that returned true since the last successful end
    roundBeginDone,             \* history: some begin call completed since the last successful end
    roundExecFailed             \* history: some BEGIN IMMEDIATE failed since the last successful end

coordVars == <<in_distributed_transaction, mutexOwner, mutexDepth>>
connVars == <<txn, db, view>>
threadVars == <<pc, via, idx, log, obj, termAtCall>>
histVars == <<snap, created, txnOwner, clean, trueBegins, roundBeginDone, roundExecFailed>>
vars == <<coordVars, connVars, threadVars, histVars, obs>>

(***************************************************************************)
(* Table Managers, operation by operation. In single-connection mode       *)
(* UserManager, OrderManager and ProductManager share the one connection   *)
(* of DatabaseManager; each has its own operation_mutex_ and statements.   *)
(***************************************************************************)

\* Rows a table may hold, values of the clock behind CURRENT_TIMESTAMP,
\* records of a batch, statements whose preparation may fail.
MaxTableRows == 2
MaxClock == 2
MaxBatch == 2
MaxNullStmts == 1
MaxKey == 2

Managers == {"users", "orders", "products"}

\* The prepared statements of a manager that the modelled operations use.
Stmts == {"insert", "select_all", "select_by_id", "update", "delete", "aggregate"}

VARIABLES
    tables,      \* per manager: rows of its table as the shared connection sees them, and its AUTOINCREMENT sequence
    saved,       \* tables at the BEGIN of the shared connection's open transaction
    inTxn,       \* the shared connection is inside a transaction
    changes,     \* sqlite3_changes() of the shared connection
    clock,       \* CURRENT_TIMESTAMP
    tieOrder,    \* how this build of the engine orders rows that tie on an ORDER BY key
    instance,    \* per manager: instance_ is set
    prepared,    \* per manager: its statements that are not nullptr
    opMutex,     \* per manager: thread that holds operation_mutex_, 0 when free
    mpc,         \* per thread: where it is inside a Table Manager operation
    call,        \* per thread: the operation it is in and its arguments
    res,         \* per thread: what its last sqlite3_step gave
    mobs,        \* the Table Manager operation that returned in the last step, if one did
    okCreates,   \* history, per manager: create calls that returned true
    lastAll      \* history, per manager: what getAll returned last, if the
                 \* table was not written since

dbVars == <<tables, saved, inTxn, changes, clock, tieOrder>>
mgrVars == <<instance, prepared, opMutex>>
opVars == <<mpc, call, res>>
histVarsTM == <<okCreates, lastAll>>
tmVars == <<dbVars, mgrVars, opVars, mobs, histVarsTM>>
(***************************************************************************)
(* The generic wrapper (SQLiteWrapperImpl): one connection of its own,     *)
(* used from one thread, every call running sqlite3_exec on a text.        *)
(***************************************************************************)
VARIABLES
    db_,          \* SQLiteWrapperImpl::db_: TRUE when the handle is open, FALSE for nullptr
    wtable,       \* rows of the wrapper's table, each <<id, name>>
    wtxn,         \* the wrapper's connection is inside a transaction
    wsaved,       \* wtable at the BEGIN of the open transaction
    last_error_,  \* SQLiteWrapperImpl::last_error_
    wobs          \* the wrapper call that has just returned

wVars == <<db_, wtable, wtxn, wsaved, last_error_, wobs>>

(***************************************************************************)
(* Construction and teardown of the singletons: the registry of the        *)
(* process (DatabaseManager or MultiConnectionDatabaseManager), the Table  *)
(* Managers built on it, the connection handles and who holds them.        *)
(***************************************************************************)
VARIABLES
    rkind,           \* which registry the process uses: "single" or "multi"
    initialized_,    \* per class, its std::once_flag: "idle", "running" (an active execution), "done"
    instance_,       \* per class, the object instance_ points to, 0 for none
    connections_,    \* the registry's table -> handle map (db_connection_ under "shared"), 0 for no entry
    db_connection_,  \* per Table Manager, the handle its db_connection_ holds, 0 for none
    handles,         \* per handle: its state, the holders of a shared_ptr to it, how often it was closed
    nextHandle,      \* the handle the next sqlite3_open_v2 yields
    live,            \* per handle, the statements compiled on it and not finalized
    rpc,             \* per thread, where it is inside getInstance()
    rgoal,           \* per thread, the class whose getInstance() it called
    phase,           \* "running", or "teardown" once the static destructors run
    destroyed,       \* the singletons already destroyed at teardown
    failures,        \* constructions that ended in an exception
    built,           \* per class, constructors that ran to completion
    robs             \* the getInstance / getConnection call that has just returned

regVars == <<rkind, initialized_, instance_, connections_, db_connection_, handles,
             nextHandle, live, rpc, rgoal, phase, destroyed, failures, built, robs>>

(***************************************************************************)
(* One prepared statement seen from the engine's side: UserManager's       *)
(* insert_stmt_, with the state sqlite3_reset, sqlite3_bind_text and       *)
(* sqlite3_step leave it in.                                               *)
(***************************************************************************)
VARIABLES
    insert_stmt_,  \* the statement: READY or HALT (stepped and not reset), and its two parameters
    utable,        \* rows <<username, email>> of the users table
    autoreset,     \* the engine build resets a halted statement on sqlite3_step (the default) or refuses it
    stobs          \* the createUser / createUsersTransaction call that has just returned

stVars == <<insert_stmt_, utable, autoreset, stobs>>

\* UserManager's read statements, seen the same way.
VARIABLES
    select_all_stmt_,          \* READY, ROW (stepped to a row, cursor open) or HALT; rows returned so far
    select_by_username_stmt_   \* the same, with its one parameter

rdVars == <<select_all_stmt_, select_by_username_stmt_>>
xVars == <<wVars, regVars, stVars, rdVars>>
exceptW == <<vars, tmVars, regVars, stVars, rdVars>>
exceptReg == <<vars, tmVars, wVars, stVars, rdVars>>
exceptSt == <<vars, tmVars, wVars, regVars, rdVars>>
exceptRd == <<vars, tmVars, wVars, regVars, insert_stmt_, utable, autoreset>>
allVars == <<vars, tmVars, xVars>>

NoObject == [alive |-> FALSE, committed |-> FALSE, rolled_back |-> FALSE]
EmptyTables == [c \in Conns |-> <<>>]

\* What a returning call found when it took its last step.
Pre ==
    [flag |-> in_distributed_transaction, txn |-> txn, db |-> db, view |-> view,
     snap |-> snap, created |-> created, owner |-> txnOwner, clean |-> clean,
     obj |-> obj]

\* obs when the last step was no return: thread 0.
NoObs ==
    [thread |-> 0, via |-> "none", result |-> "none", entered |-> FALSE,
     termAtCall |-> FALSE, log |-> <<>>, pre |-> <<>>]

\* obs when thread t returns r from the public function it entered through
\* via[t]; entered tells whether a coordinator function was called.
Returned(t, r, entered) ==
    [thread |-> t, via |-> via[t], result |-> r, entered |-> entered,
     termAtCall |-> termAtCall[t], log |-> log[t], pre |-> Pre]

CoordInit ==
    /\ in_distributed_transaction = FALSE
    /\ mutexOwner = 0
    /\ mutexDepth = 0
    /\ txn = [c \in Conns |-> 0]
    /\ db = EmptyTables
    /\ view = EmptyTables
    /\ pc = [t \in Threads |-> "idle"]
    /\ via = [t \in Threads |-> "none"]
    /\ idx = [t \in Threads |-> 0]
    /\ log = [t \in Threads |-> <<>>]
    /\ obj = [t \in Threads |-> NoObject]
    /\ termAtCall = [t \in Threads |-> FALSE]
    /\ snap = EmptyTables
    /\ created = EmptyTables
    /\ txnOwner = 0
    /\ clean = TRUE
    /\ trueBegins = 0
    /\ roundBeginDone = FALSE
    /\ roundExecFailed = FALSE
    /\ obs = NoObs

\* mobs when the last step was no return of a Table Manager operation.
NoMObs == [thread |-> 0]

\* A thread outside every Table Manager operation.
NoCall == [mgr |-> "none", op |-> "none"]

\* A thread that has not stepped a statement.
NoRes == [code |-> "none", n |-> 0, data |-> 0]

\* A table after CREATE TABLE IF NOT EXISTS on a new database file.
EmptyTable == [rows |-> <<>>, seq |-> 0]

\* The shared connection and the threads before any Table Manager exists:
\* getInstance() constructs a manager on its first call.
TMInit ==
    /\ tables = [m \in Managers |-> EmptyTable]
    /\ saved = [m \in Managers |-> EmptyTable]
    /\ inTxn = FALSE
    /\ changes = 0
    /\ clock = 1
    /\ tieOrder = "rowid_asc"
    /\ instance = [m \in Managers |-> FALSE]
    /\ prepared = [m \in Managers |-> {}]
    /\ opMutex = [m \in Managers |-> 0]
    /\ mpc = [t \in Threads |-> "idle"]
    /\ call = [t \in Threads |-> NoCall]
    /\ res = [t \in Threads |-> NoRes]
    /\ mobs = NoMObs
    /\ okCreates = [m \in Managers |-> 0]
    /\ lastAll = [m \in Managers |-> <<>>]

\* The wrapper right after its constructor opened the database: nothing
\* stored, no error recorded, no call made.
NoWObs == [op |-> "none", sql |-> <<>>, rc |-> "none", err |-> "", ok |-> FALSE,
           produced |-> <<>>, calls |-> <<>>,
           result |-> [column_names |-> <<>>, rows |-> <<>>]]

\* SQLiteWrapperImpl(db_path): sqlite3_open either succeeds, or the handle is
\* closed again, db_ is nullptr and the reason is the latest error.
SQLiteWrapperImpl(opened) ==
    /\ db_ = opened
    /\ wtable = <<>>
    /\ wtxn = FALSE
    /\ wsaved = <<>>
    /\ last_error_ = IF opened THEN <<>> ELSE <<"cannot open database: ", "unable to open database file">>
    /\ wobs = NoWObs

WInit == SQLiteWrapperImpl(TRUE)

MaxOpenFailures == 1

Registry == "registry"
\* The Table Managers that exist for each registry (MultiConnectionUserManager
\* is declared but has no implementation).
TableManagers(kind) ==
    IF kind = "single" THEN {"users", "orders", "products"} ELSE {"orders", "products"}
Classes == {Registry, "users", "orders", "products"}
\* db_paths_: the tables the registry opens a connection for.
Registered(kind) == IF kind = "single" THEN {"shared"} ELSE {"USERS", "ORDERS", "PRODUCTS"}
TableKeys == {"shared", "USERS", "ORDERS", "PRODUCTS", "OTHER"}
MaxHandles == NumConns * (MaxOpenFailures + 1)
Handles == 1..MaxHandles

NoHandle == [state |-> "none", holders |-> {}, closes |-> 0]
NoRObs == [thread |-> 0, op |-> "none", cls |-> "none", outcome |-> "none",
           inst |-> 0, table |-> "none", handle |-> 0, made |-> 0]

\* The process before the first getInstance().
RInit(kind) ==
    /\ rkind = kind
    /\ initialized_ = [c \in Classes |-> "idle"]
    /\ instance_ = [c \in Classes |-> 0]
    /\ connections_ = [k \in TableKeys |-> 0]
    /\ db_connection_ = [c \in Classes |-> 0]
    /\ handles = [h \in Handles |-> NoHandle]
    /\ nextHandle = 1
    /\ live = [h \in Handles |-> {}]
    /\ rpc = [t \in Threads |-> "idle"]
    /\ rgoal = [t \in Threads |-> "none"]
    /\ phase = "running"
    /\ destroyed = {}
    /\ failures = 0
    /\ built = [c \in Classes |-> 0]
    /\ robs = NoRObs

\* insert_stmt_ as prepareStatements leaves it: compiled, nothing bound.
Unbound == 0
NoStObs == [op |-> "none", args |-> <<>>, ok |-> FALSE, before |-> {},
            prevOp |-> "none", prevOk |-> FALSE]

StInit(auto) ==
    /\ insert_stmt_ = [state |-> "READY", bound |-> <<Unbound, Unbound>>]
    /\ utable = {}
    /\ autoreset = auto
    /\ stobs = NoStObs

\* The read statements as prepareStatements leaves them.
RdInit ==
    /\ select_all_stmt_ = [state |-> "READY", bound |-> <<>>, pos |-> 0]
    /\ select_by_username_stmt_ = [state |-> "READY", bound |-> <<Unbound>>, pos |-> 0]

XInit == WInit /\ RInit("multi") /\ StInit(TRUE) /\ RdInit

Init == CoordInit /\ TMInit /\ XInit


(***************************************************************************)
(* The storage engine, as the sqlite3_exec calls of the coordinator use it *)
(***************************************************************************)

\* Results sqlite3_exec(db, "BEGIN IMMEDIATE;") can give on connection c:
\* an error when the connection already is in a transaction, else success
\* or an error (the write lock is busy after the busy timeout, I/O error).
BeginImmediateResults(c) ==
    IF txn[c] # 0 THEN {FALSE} ELSE {TRUE, FALSE}

\* Results sqlite3_exec(db, "COMMIT;") can give on connection c: "error"
\* when no transaction is open; else "ok", "busy" (the transaction stays
\* open) or "aborted" (the engine rolled the transaction back on the error).
CommitResults(c) ==
    IF txn[c] = 0 THEN {"error"} ELSE {"ok", "busy", "aborted"}

\* The result sqlite3_exec(db, "ROLLBACK;") gives on connection c: an error
\* when no transaction is open, else success.
RollbackResult(c) == txn[c] # 0

\* Who opens a transaction: thread t calling beginDistributedTransaction
\* itself, or the DistributedTransaction object of thread t.
ByCall(t) == t
ByObject(t) == NumThreads + t
Beginner(t) == IF via[t] = "ctor" THEN ByObject(t) ELSE ByCall(t)

\* Connection state after BEGIN IMMEDIATE by thread t with result ok.
AfterBegin(t, c, ok) ==
    /\ txn' = IF ok THEN [txn EXCEPT ![c] = Beginner(t)] ELSE txn
    /\ UNCHANGED <<db, view>>

\* Connection state after COMMIT with result r.
AfterCommit(c, r) ==
    /\ txn' = IF r \in {"ok", "aborted"} THEN [txn EXCEPT ![c] = 0] ELSE txn
    /\ db' = IF r = "ok" THEN [db EXCEPT ![c] = view[c]] ELSE db
    /\ view' = IF r = "aborted" THEN [view EXCEPT ![c] = db[c]] ELSE view

\* Connection state after ROLLBACK.
AfterRollback(c) ==
    /\ txn' = [txn EXCEPT ![c] = 0]
    /\ view' = [view EXCEPT ![c] = db[c]]
    /\ UNCHANGED db

LogEntry(cmd, c, ok) == [cmd |-> cmd, conn |-> c, ok |-> ok]

(***************************************************************************)
(* Calls and returns                                                       *)
(***************************************************************************)

\* The coordinator function a thread's public call runs at top level.
CoordOp(t) ==
    CASE via[t] \in {"begin", "ctor"} -> "begin"
      [] via[t] \in {"commit", "dt_commit"} -> "commit"
      [] via[t] \in {"rollback", "dt_rollback", "dtor"} -> "rollback"
      [] OTHER -> "none"

\* ~lock_guard of the function that holds transaction_mutex_ outermost.
ReleaseMutex ==
    /\ mutexOwner' = 0
    /\ mutexDepth' = 0

\* committed_ || rolled_back_
Terminal(o) == o.committed \/ o.rolled_back

\* A thread calls a public function: its log of commands starts empty.
Enter(t, where, how) ==
    /\ pc[t] = "idle"
    /\ pc' = [pc EXCEPT ![t] = where]
    /\ via' = [via EXCEPT ![t] = how]
    /\ termAtCall' = [termAtCall EXCEPT ![t] = obj[t].alive /\ Terminal(obj[t])]
    /\ obs' = NoObs
    /\ UNCHANGED <<idx, log, obj, coordVars, connVars, histVars>>

\* A member function of DistributedTransaction returns r without having
\* called the coordinator.
ReturnEarly(t, r) ==
    /\ pc' = [pc EXCEPT ![t] = "idle"]
    /\ via' = [via EXCEPT ![t] = "none"]
    /\ obs' = Returned(t, r, FALSE)
    /\ termAtCall' = [termAtCall EXCEPT ![t] = FALSE]
    /\ UNCHANGED <<idx, log>>

\* The top-level coordinator function of thread t hands r ("true", "false",
\* or "throw" for an exception passing through it) to the code that called
\* it: a direct caller, or a member function of DistributedTransaction.
Return(t, r) ==
    /\ idx' = [idx EXCEPT ![t] = 0]
    /\ log' = [log EXCEPT ![t] = <<>>]
    /\ obs' = Returned(t, r, TRUE)
    /\ termAtCall' = [termAtCall EXCEPT ![t] = FALSE]
    /\ CASE via[t] = "ctor" ->
              \* DistributedTransaction(): throws unless begin returned true
              /\ pc' = [pc EXCEPT ![t] = "idle"]
              /\ via' = [via EXCEPT ![t] = "none"]
              /\ obj' = [obj EXCEPT ![t] = [NoObject EXCEPT !.alive = (r = "true")]]
         [] via[t] = "dt_commit" ->
              \* committed_ = commitDistributedTransaction(); an exception
              \* leaves the scope of the object, whose destructor runs
              /\ pc' = [pc EXCEPT ![t] = IF r = "throw" THEN "dt_dtor" ELSE "idle"]
              /\ via' = [via EXCEPT ![t] = IF r = "throw" THEN "dtor" ELSE "none"]
              /\ obj' = IF r = "throw" THEN obj
                        ELSE [obj EXCEPT ![t].committed = (r = "true")]
         [] via[t] = "dtor" ->
              /\ pc' = [pc EXCEPT ![t] = "idle"]
              /\ via' = [via EXCEPT ![t] = "none"]
              /\ obj' = [obj EXCEPT ![t] = NoObject]
         [] OTHER ->
              \* a direct caller, or DistributedTransaction::rollback()
              /\ pc' = [pc EXCEPT ![t] = "idle"]
              /\ via' = [via EXCEPT ![t] = "none"]
              /\ UNCHANGED obj

\* History: a begin call completed without starting a transaction.
BeginEndsHist ==
    /\ roundBeginDone' = TRUE
    /\ txnOwner' = 0
    /\ snap' = EmptyTables
    /\ created' = EmptyTables
    /\ clean' = TRUE
    /\ UNCHANGED <<trueBegins, roundExecFailed>>

\* History: a commit or rollback call returned true, the transaction is over.
TxnEndsHist ==
    /\ trueBegins' = 0
    /\ roundBeginDone' = FALSE
    /\ roundExecFailed' = FALSE
    /\ txnOwner' = 0
    /\ snap' = EmptyTables
    /\ created' = EmptyTables
    /\ clean' = TRUE

(***************************************************************************)
(* MultiConnectionDatabaseManager::beginDistributedTransaction             *)
(***************************************************************************)

CallBegin(t) == Enter(t, "begin_lock", "begin")

\* lock_guard lock(transaction_mutex_); if (in_distributed_transaction_)
\* return false; `active` is the value the test reads.
BeginLockWith(t, active) ==
    /\ pc[t] = "begin_lock"
    /\ mutexOwner = 0
    /\ IF active
       THEN /\ Return(t, "false")
            /\ roundBeginDone' = TRUE
            /\ UNCHANGED <<coordVars, connVars, snap, created, txnOwner, clean,
                           trueBegins, roundExecFailed>>
       ELSE /\ mutexOwner' = t
            /\ mutexDepth' = 1
            /\ pc' = [pc EXCEPT ![t] = "begin_loop"]
            /\ idx' = [idx EXCEPT ![t] = 1]
            /\ txnOwner' = t
            /\ snap' = db
            /\ created' = EmptyTables
            /\ clean' = TRUE
            /\ obs' = NoObs
            /\ UNCHANGED <<in_distributed_transaction, connVars, via, log, obj, termAtCall,
                           trueBegins, roundBeginDone, roundExecFailed>>

\* Mutant: begin without its test of in_distributed_transaction_.
BeginLockNoCheck(t) == BeginLockWith(t, FALSE)

BeginLock(t) == BeginLockWith(t, in_distributed_transaction)

\* One iteration of the loop: BEGIN IMMEDIATE on the next connection; on an
\* error the function calls rollbackDistributedTransaction().
BeginExec(t) ==
    /\ pc[t] = "begin_loop"
    /\ idx[t] <= NumConns
    /\ \E ok \in BeginImmediateResults(idx[t]) :
        /\ AfterBegin(t, idx[t], ok)
        /\ log' = [log EXCEPT ![t] = Append(@, LogEntry("BEGIN", idx[t], ok))]
        /\ IF ok
           THEN /\ idx' = [idx EXCEPT ![t] = @ + 1]
                /\ UNCHANGED <<pc, roundExecFailed>>
           ELSE /\ pc' = [pc EXCEPT ![t] = "rb_lock"]
                /\ roundExecFailed' = TRUE
                /\ UNCHANGED idx
    /\ obs' = NoObs
    /\ UNCHANGED <<coordVars, via, obj, termAtCall, snap, created, txnOwner, clean,
                   trueBegins, roundBeginDone>>

\* Every BEGIN IMMEDIATE succeeded: in_distributed_transaction_ = true; return true.
BeginDone(t) ==
    /\ pc[t] = "begin_loop"
    /\ idx[t] > NumConns
    /\ in_distributed_transaction' = TRUE
    /\ ReleaseMutex
    /\ Return(t, "true")
    /\ trueBegins' = trueBegins + 1
    /\ roundBeginDone' = TRUE
    /\ UNCHANGED <<connVars, snap, created, txnOwner, clean, roundExecFailed>>

(***************************************************************************)
(* MultiConnectionDatabaseManager::rollbackDistributedTransaction          *)
(***************************************************************************)

CallRollback(t) == Enter(t, "rb_lock", "rollback")

\* The call is the one begin or commit makes on its failure path.
Nested(t) == CoordOp(t) \in {"begin", "commit"}

\* rollbackDistributedTransaction returns false at its test of the flag: a
\* direct caller gets false; begin or commit frees the error message and
\* returns false itself.
RollbackNotActive(t) ==
    /\ Return(t, "false")
    /\ IF CoordOp(t) = "begin" THEN BeginEndsHist ELSE UNCHANGED histVars
    /\ UNCHANGED <<in_distributed_transaction, connVars>>

\* lock_guard lock(transaction_mutex_) by a thread that does not hold the
\* mutex; if (!in_distributed_transaction_) return false.
RollbackLock(t) ==
    /\ pc[t] = "rb_lock"
    /\ mutexOwner = 0
    /\ IF ~in_distributed_transaction
       THEN /\ RollbackNotActive(t)
            /\ UNCHANGED <<mutexOwner, mutexDepth>>
       ELSE /\ mutexOwner' = t
            /\ mutexDepth' = 1
            /\ pc' = [pc EXCEPT ![t] = "rb_loop"]
            /\ idx' = [idx EXCEPT ![t] = 1]
            /\ obs' = NoObs
            /\ UNCHANGED <<in_distributed_transaction, connVars, via, log, obj, termAtCall, histVars>>

\* lock_guard lock(transaction_mutex_) by the thread that holds the mutex
\* already, in begin or commit: undefined behaviour.
RollbackRelock(t) ==
    /\ pc[t] = "rb_lock"
    /\ mutexOwner = t
    /\ \E o \in RelockOutcomes :
        CASE o = "deadlock" ->
               /\ pc' = [pc EXCEPT ![t] = "rb_blocked"]
               /\ obs' = NoObs
               /\ UNCHANGED <<coordVars, connVars, via, idx, log, obj, termAtCall, histVars>>
          [] o = "throw" ->
               \* std::system_error leaves begin or commit, whose lock_guard unlocks
               /\ ReleaseMutex
               /\ Return(t, "throw")
               /\ IF CoordOp(t) = "begin" THEN BeginEndsHist ELSE UNCHANGED histVars
               /\ UNCHANGED <<in_distributed_transaction, connVars>>
          [] o = "recursive" ->
               IF ~in_distributed_transaction
               THEN /\ ReleaseMutex
                    /\ RollbackNotActive(t)
               ELSE /\ mutexDepth' = 2
                    /\ pc' = [pc EXCEPT ![t] = "rb_loop"]
                    /\ idx' = [idx EXCEPT ![t] = 1]
                    /\ obs' = NoObs
                    /\ UNCHANGED <<in_distributed_transaction, mutexOwner, connVars,
                                   via, log, obj, termAtCall, histVars>>

\* Mutant: the rollback loop ends at the first ROLLBACK that fails, as the
\* loops of begin and commit do.
RollbackExecStopOnError(t) ==
    /\ pc[t] = "rb_loop"
    /\ idx[t] <= NumConns
    /\ log' = [log EXCEPT ![t] = Append(@, LogEntry("ROLLBACK", idx[t], RollbackResult(idx[t])))]
    /\ IF RollbackResult(idx[t]) THEN AfterRollback(idx[t]) ELSE UNCHANGED connVars
    /\ idx' = [idx EXCEPT ![t] = IF RollbackResult(idx[t]) THEN @ + 1 ELSE NumConns + 1]
    /\ obs' = NoObs
    /\ UNCHANGED <<coordVars, pc, via, obj, termAtCall, histVars>>

\* One iteration of the loop: ROLLBACK on the next connection, result ignored.
RollbackExec(t) ==
    /\ pc[t] = "rb_loop"
    /\ idx[t] <= NumConns
    /\ log' = [log EXCEPT ![t] = Append(@, LogEntry("ROLLBACK", idx[t], RollbackResult(idx[t])))]
    /\ IF RollbackResult(idx[t]) THEN AfterRollback(idx[t]) ELSE UNCHANGED connVars
    /\ idx' = [idx EXCEPT ![t] = @ + 1]
    /\ obs' = NoObs
    /\ UNCHANGED <<coordVars, pc, via, obj, termAtCall, histVars>>

\* in_distributed_transaction_ = false; return true. When begin or commit
\* made the call, it then returns false itself.
RollbackDone(t) ==
    /\ pc[t] = "rb_loop"
    /\ idx[t] > NumConns
    /\ in_distributed_transaction' = FALSE
    /\ ReleaseMutex
    /\ Return(t, IF Nested(t) THEN "false" ELSE "true")
    /\ TxnEndsHist
    /\ UNCHANGED connVars

(***************************************************************************)
(* MultiConnectionDatabaseManager::commitDistributedTransaction            *)
(***************************************************************************)

CallCommit(t) == Enter(t, "commit_lock", "commit")

\* lock_guard lock(transaction_mutex_); if (!in_distributed_transaction_)
\* return false; `active` is the value the test reads.
CommitLockWith(t, active) ==
    /\ pc[t] = "commit_lock"
    /\ mutexOwner = 0
    /\ IF ~active
       THEN /\ Return(t, "false")
            /\ UNCHANGED <<coordVars, connVars, histVars>>
       ELSE /\ mutexOwner' = t
            /\ mutexDepth' = 1
            /\ pc' = [pc EXCEPT ![t] = "commit_loop"]
            /\ idx' = [idx EXCEPT ![t] = 1]
            /\ obs' = NoObs
            /\ UNCHANGED <<in_distributed_transaction, connVars, via, log, obj, termAtCall, histVars>>

\* Mutant: commit without its test of in_distributed_transaction_.
CommitLockNoCheck(t) == CommitLockWith(t, TRUE)

CommitLock(t) == CommitLockWith(t, in_distributed_transaction)

\* Mutant: the commit loop ends after the first COMMIT that succeeds.
CommitExecFirstOnly(t) ==
    /\ pc[t] = "commit_loop"
    /\ idx[t] <= NumConns
    /\ \E r \in CommitResults(idx[t]) :
        /\ AfterCommit(idx[t], r)
        /\ log' = [log EXCEPT ![t] = Append(@, LogEntry("COMMIT", idx[t], r = "ok"))]
        /\ IF r = "ok"
           THEN /\ idx' = [idx EXCEPT ![t] = NumConns + 1]
                /\ UNCHANGED <<pc, clean>>
           ELSE /\ pc' = [pc EXCEPT ![t] = "rb_lock"]
                /\ clean' = FALSE
                /\ UNCHANGED idx
    /\ obs' = NoObs
    /\ UNCHANGED <<coordVars, via, obj, termAtCall, snap, created, txnOwner,
                   trueBegins, roundBeginDone, roundExecFailed>>

\* One iteration of the loop: COMMIT on the next connection; on an error the
\* function calls rollbackDistributedTransaction().
CommitExec(t) ==
    /\ pc[t] = "commit_loop"
    /\ idx[t] <= NumConns
    /\ \E r \in CommitResults(idx[t]) :
        /\ AfterCommit(idx[t], r)
        /\ log' = [log EXCEPT ![t] = Append(@, LogEntry("COMMIT", idx[t], r = "ok"))]
        /\ IF r = "ok"
           THEN /\ idx' = [idx EXCEPT ![t] = @ + 1]
                /\ UNCHANGED <<pc, clean>>
           ELSE /\ pc' = [pc EXCEPT ![t] = "rb_lock"]
                /\ clean' = FALSE
                /\ UNCHANGED idx
    /\ obs' = NoObs
    /\ UNCHANGED <<coordVars, via, obj, termAtCall, snap, created, txnOwner,
                   trueBegins, roundBeginDone, roundExecFailed>>

\* Every COMMIT succeeded: in_distributed_transaction_ = false; return true.
CommitDone(t) ==
    /\ pc[t] = "commit_loop"
    /\ idx[t] > NumConns
    /\ in_distributed_transaction' = FALSE
    /\ ReleaseMutex
    /\ Return(t, "true")
    /\ TxnEndsHist
    /\ UNCHANGED connVars

(***************************************************************************)
(* DistributedTransaction, the scoped wrapper                              *)
(***************************************************************************)

\* DistributedTransaction(): committed_(false), rolled_back_(false), then
\* beginDistributedTransaction().
DTConstruct(t) ==
    /\ ~obj[t].alive
    /\ Enter(t, "begin_lock", "ctor")

DTCommitCall(t) ==
    /\ obj[t].alive
    /\ Enter(t, "dt_commit", "dt_commit")

\* DistributedTransaction::commit(): if (committed_ || rolled_back_) return
\* false; else committed_ = commitDistributedTransaction(). `terminal` is
\* the value the test reads.
DTCommitBodyWith(t, terminal) ==
    /\ pc[t] = "dt_commit"
    /\ IF terminal
       THEN ReturnEarly(t, "false")
       ELSE /\ pc' = [pc EXCEPT ![t] = "commit_lock"]
            /\ obs' = NoObs
            /\ UNCHANGED <<via, idx, log, termAtCall>>
    /\ UNCHANGED <<coordVars, connVars, obj, histVars>>

\* Mutant: commit() without its test of committed_ and rolled_back_.
DTCommitBodyNoCheck(t) == DTCommitBodyWith(t, FALSE)

DTCommitBody(t) == DTCommitBodyWith(t, Terminal(obj[t]))

DTRollbackCall(t) ==
    /\ obj[t].alive
    /\ Enter(t, "dt_rollback", "dt_rollback")

\* DistributedTransaction::rollback(): if (!committed_ && !rolled_back_)
\* { rolled_back_ = true; rollbackDistributedTransaction(); } `terminal` is
\* the value the test reads.
DTRollbackBodyWith(t, terminal) ==
    /\ pc[t] = "dt_rollback"
    /\ IF terminal
       THEN /\ ReturnEarly(t, "void")
            /\ UNCHANGED obj
       ELSE /\ obj' = [obj EXCEPT ![t].rolled_back = TRUE]
            /\ pc' = [pc EXCEPT ![t] = "rb_lock"]
            /\ obs' = NoObs
            /\ UNCHANGED <<via, idx, log, termAtCall>>
    /\ UNCHANGED <<coordVars, connVars, histVars>>

DTRollbackBody(t) == DTRollbackBodyWith(t, Terminal(obj[t]))

\* The object's scope ends.
DTDestroy(t) ==
    /\ obj[t].alive
    /\ Enter(t, "dt_dtor", "dtor")

\* ~DistributedTransaction(): if (!committed_ && !rolled_back_) rollback();
\* rollback() then sets rolled_back_ and calls rollbackDistributedTransaction().
\* `terminal` is the value the test reads.
DtorBodyWith(t, terminal) ==
    /\ pc[t] = "dt_dtor"
    /\ IF terminal
       THEN /\ ReturnEarly(t, "void")
            /\ obj' = [obj EXCEPT ![t] = NoObject]
       ELSE /\ obj' = [obj EXCEPT ![t].rolled_back = TRUE]
            /\ pc' = [pc EXCEPT ![t] = "rb_lock"]
            /\ obs' = NoObs
            /\ UNCHANGED <<via, idx, log, termAtCall>>
    /\ UNCHANGED <<coordVars, connVars, histVars>>

\* Mutant: a destructor that never rolls back.
DtorBodyNoRollback(t) == DtorBodyWith(t, TRUE)

DtorBody(t) == DtorBodyWith(t, Terminal(obj[t]))

(***************************************************************************)
(* Table Managers: create                                                  *)
(***************************************************************************)

\* The connection of each Table Manager (getConnection(TableType)), as its
\* place in the loops over connections_.
ConnOf == [users |-> 1, orders |-> 2, products |-> 3]

\* create under operation_mutex_: reset and bind insert_stmt_, one
\* sqlite3_step; the row is inserted iff the step gives SQLITE_DONE (ok).
\* Outside a transaction the insert commits at once; inside the open
\* transaction of the connection it stays uncommitted.
TableCreate(t, c, v, ok) ==
    /\ pc[t] = "idle"
    /\ Len(view[c]) < MaxRows
    /\ view' = IF ok THEN [view EXCEPT ![c] = Append(@, v)] ELSE view
    /\ db' = IF ok /\ txn[c] = 0 THEN [db EXCEPT ![c] = Append(@, v)] ELSE db
    /\ created' = IF ok /\ in_distributed_transaction /\ mutexOwner = 0
                  THEN [created EXCEPT ![c] = Append(@, v)] ELSE created
    /\ clean' = IF ok /\ mutexOwner # 0 THEN FALSE ELSE clean
    /\ obs' = [NoObs EXCEPT !.thread = t, !.via = "create",
                            !.result = IF ok THEN "true" ELSE "false"]
    /\ UNCHANGED <<coordVars, txn, pc, via, idx, log, obj, termAtCall, snap, txnOwner,
                   trueBegins, roundBeginDone, roundExecFailed>>

CreateOrder(t, v) == \E ok \in BOOLEAN : TableCreate(t, ConnOf.orders, v, ok)

CreateProduct(t, v) == \E ok \in BOOLEAN : TableCreate(t, ConnOf.products, v, ok)

\* createOrder / createProduct of the multi-connection managers from the
\* lock_guard on operation_mutex_ to the return, in two steps: the thread
\* takes the manager's mutex and starts on the connection (reset, bind,
\* sqlite3_step) ...
MCCreateLock(t, m) ==
    /\ pc[t] = "idle"
    /\ mpc[t] = "idle"
    /\ opMutex[m] = 0
    /\ Len(view[ConnOf[m]]) < MaxRows
    /\ opMutex' = [opMutex EXCEPT ![m] = t]
    /\ mpc' = [mpc EXCEPT ![t] = "mc_step"]
    /\ call' = [call EXCEPT ![t] = [mgr |-> m, op |-> "create"]]
    /\ obs' = NoObs
    /\ UNCHANGED <<coordVars, connVars, threadVars, histVars, xVars>>
    /\ mobs' = NoMObs
    /\ UNCHANGED <<dbVars, instance, prepared, res, histVarsTM>>

\* ... and sqlite3_step completes, the function returns and the mutex is
\* released.
MCCreateStep(t, v) ==
    /\ mpc[t] = "mc_step"
    /\ \E ok \in BOOLEAN : TableCreate(t, ConnOf[call[t].mgr], v, ok)
    /\ opMutex' = [opMutex EXCEPT ![call[t].mgr] = 0]
    /\ mpc' = [mpc EXCEPT ![t] = "idle"]
    /\ call' = [call EXCEPT ![t] = NoCall]
    /\ mobs' = NoMObs
    /\ UNCHANGED <<dbVars, instance, prepared, res, histVarsTM, xVars>>

\* The transaction of a connection was opened by the table-local batch of
\* thread t.
ByBatch(t) == 2 * NumThreads + t

\* Results sqlite3_exec(db, "BEGIN TRANSACTION;") can give on connection c:
\* an error when the connection already is in a transaction ("cannot start a
\* transaction within a transaction"), else success: a deferred BEGIN takes
\* no lock.
BeginTransactionResults(c) == IF txn[c] # 0 THEN {FALSE} ELSE {TRUE}

\* A table-local batch returns r: ~lock_guard, and the caller has the result.
MCBatchReturn(t, r) ==
    /\ opMutex' = [opMutex EXCEPT ![call[t].mgr] = 0]
    /\ mpc' = [mpc EXCEPT ![t] = "idle"]
    /\ call' = [call EXCEPT ![t] = NoCall]
    /\ obs' = [NoObs EXCEPT !.thread = t, !.via = "batch", !.result = r]

\* MultiConnectionOrderManager::createOrdersTransaction with n records (m
\* is "orders"): lock_guard on operation_mutex_ and
\* sqlite3_exec(db, "BEGIN TRANSACTION;"); on an error return false.
MCBatchBegin(t, m, n) ==
    /\ pc[t] = "idle"
    /\ mpc[t] = "idle"
    /\ opMutex[m] = 0
    /\ txn[ConnOf[m]] = 0 => Len(view[ConnOf[m]]) + n <= MaxRows
    /\ \E ok \in BeginTransactionResults(ConnOf[m]) :
        IF ok
        THEN /\ txn' = [txn EXCEPT ![ConnOf[m]] = ByBatch(t)]
             /\ opMutex' = [opMutex EXCEPT ![m] = t]
             /\ mpc' = [mpc EXCEPT ![t] = "mcb_loop"]
             /\ call' = [call EXCEPT ![t] = [mgr |-> m, op |-> "batch", left |-> n]]
             /\ obs' = NoObs
        ELSE /\ opMutex' = opMutex
             /\ mpc' = mpc
             /\ call' = call
             /\ obs' = [NoObs EXCEPT !.thread = t, !.via = "batch", !.result = "false"]
             /\ UNCHANGED txn
    /\ mobs' = NoMObs
    /\ UNCHANGED <<coordVars, db, view, threadVars, histVars, xVars>>
    /\ UNCHANGED <<dbVars, instance, prepared, res, histVarsTM>>

\* One iteration of the loop: reset, bind, sqlite3_step of insert_stmt_ for
\* record v; if the step does not give SQLITE_DONE, ROLLBACK and return false.
MCBatchInsert(t, v) ==
    /\ mpc[t] = "mcb_loop"
    /\ call[t].left > 0
    /\ Len(view[ConnOf[call[t].mgr]]) < MaxRows
    /\ \E ok \in BOOLEAN :
        IF ok
        THEN /\ view' = [view EXCEPT ![ConnOf[call[t].mgr]] = Append(@, v)]
             /\ db' = IF txn[ConnOf[call[t].mgr]] = 0
                      THEN [db EXCEPT ![ConnOf[call[t].mgr]] = Append(@, v)] ELSE db
             /\ call' = [call EXCEPT ![t].left = @ - 1]
             /\ obs' = NoObs
             /\ UNCHANGED <<txn, opMutex, mpc>>
        ELSE /\ IF RollbackResult(ConnOf[call[t].mgr])
                THEN AfterRollback(ConnOf[call[t].mgr])
                ELSE UNCHANGED connVars
             /\ MCBatchReturn(t, "false")
    /\ mobs' = NoMObs
    /\ UNCHANGED <<coordVars, threadVars, histVars, xVars>>
    /\ UNCHANGED <<dbVars, instance, prepared, res, histVarsTM>>

\* After the loop: sqlite3_exec(db, "COMMIT;"); on an error ROLLBACK and
\* return false, else return true.
MCBatchCommit(t) ==
    /\ mpc[t] = "mcb_loop"
    /\ call[t].left = 0
    /\ \E r \in CommitResults(ConnOf[call[t].mgr]) :
        IF r = "ok"
        THEN /\ AfterCommit(ConnOf[call[t].mgr], r)
             /\ MCBatchReturn(t, "true")
        ELSE \* the COMMIT failed and ROLLBACK ends whatever it left open
             /\ txn' = [txn EXCEPT ![ConnOf[call[t].mgr]] = 0]
             /\ view' = IF txn[ConnOf[call[t].mgr]] # 0
                        THEN [view EXCEPT ![ConnOf[call[t].mgr]] = db[ConnOf[call[t].mgr]]]
                        ELSE view
             /\ UNCHANGED db
             /\ MCBatchReturn(t, "false")
    /\ mobs' = NoMObs
    /\ UNCHANGED <<coordVars, threadVars, histVars, xVars>>
    /\ UNCHANGED <<dbVars, instance, prepared, res, histVarsTM>>

\* MultiConnectionProductManager::createProductsTransaction: return false.
MCCreateProductsTransaction(t) ==
    /\ pc[t] = "idle"
    /\ mpc[t] = "idle"
    /\ obs' = [NoObs EXCEPT !.thread = t, !.via = "batch", !.result = "false"]
    /\ mobs' = NoMObs
    /\ UNCHANGED <<coordVars, connVars, threadVars, histVars, xVars>>
    /\ UNCHANGED <<dbVars, mgrVars, opVars, histVarsTM>>

\* Thread t is executing a Table Manager operation on connection c.
UsesConn(t, c) == mpc[t] = "mc_step" /\ ConnOf[call[t].mgr] = c

\* The step is a sqlite3_exec of BEGIN IMMEDIATE, COMMIT or ROLLBACK that
\* the coordinator, called by thread t, runs on connection c.
CoordExec(t, c) ==
    /\ Len(log'[t]) = Len(log[t]) + 1
    /\ log'[t][Len(log'[t])].conn = c

\* getAll under operation_mutex_: the rows the manager's connection sees;
\* the ORDER BY of the statement is not modelled.
GetAll(c) == view[c]

(***************************************************************************)
(* Specifications                                                          *)
(***************************************************************************)

\* The steps of the coordinator's functions.
CoordStep(t) ==
    \/ BeginLock(t) /\ UNCHANGED <<tmVars, xVars>>
    \/ BeginExec(t) /\ UNCHANGED <<tmVars, xVars>>
    \/ BeginDone(t) /\ UNCHANGED <<tmVars, xVars>>
    \/ CommitLock(t) /\ UNCHANGED <<tmVars, xVars>>
    \/ CommitExec(t) /\ UNCHANGED <<tmVars, xVars>>
    \/ CommitDone(t) /\ UNCHANGED <<tmVars, xVars>>
    \/ RollbackLock(t) /\ UNCHANGED <<tmVars, xVars>>
    \/ RollbackRelock(t) /\ UNCHANGED <<tmVars, xVars>>
    \/ RollbackExec(t) /\ UNCHANGED <<tmVars, xVars>>
    \/ RollbackDone(t) /\ UNCHANGED <<tmVars, xVars>>

\* The steps of the wrapper's member functions.
WrapperStep(t) ==
    \/ DTCommitBody(t) /\ UNCHANGED <<tmVars, xVars>>
    \/ DTRollbackBody(t) /\ UNCHANGED <<tmVars, xVars>>
    \/ DtorBody(t) /\ UNCHANGED <<tmVars, xVars>>

\* Calls of the coordinator's public functions.
DirectCall(t) ==
    \/ CallBegin(t) /\ UNCHANGED <<tmVars, xVars>>
    \/ CallCommit(t) /\ UNCHANGED <<tmVars, xVars>>
    \/ CallRollback(t) /\ UNCHANGED <<tmVars, xVars>>

\* Uses of a DistributedTransaction object.
WrapperCall(t) ==
    \/ DTConstruct(t) /\ UNCHANGED <<tmVars, xVars>>
    \/ DTCommitCall(t) /\ UNCHANGED <<tmVars, xVars>>
    \/ DTRollbackCall(t) /\ UNCHANGED <<tmVars, xVars>>
    \/ DTDestroy(t) /\ UNCHANGED <<tmVars, xVars>>

Create(t) ==
    \E v \in Vals :
        \/ CreateOrder(t, v) /\ UNCHANGED <<tmVars, xVars>>
        \/ CreateProduct(t, v) /\ UNCHANGED <<tmVars, xVars>>

\* Threads that call the coordinator's public functions.
Next == \E t \in Threads : DirectCall(t) \/ CoordStep(t)

Spec == Init /\ [][Next]_allVars

\* Threads that call the coordinator's public functions and use
\* DistributedTransaction objects.
NextAPI ==
    \E t \in Threads : DirectCall(t) \/ WrapperCall(t) \/ CoordStep(t) \/ WrapperStep(t)

SpecAPI == Init /\ [][NextAPI]_allVars

\* Threads that use DistributedTransaction objects and the Table Managers.
NextData ==
    \E t \in Threads : WrapperCall(t) \/ CoordStep(t) \/ WrapperStep(t) \/ Create(t)

SpecData == Init /\ [][NextData]_allVars

(***************************************************************************)
(* The engine behind the shared connection of single-connection mode       *)
(***************************************************************************)

\* Usernames, product names and user ids; order statuses.
Keys == 1..MaxKey
Statuses == {"pending", "paid"}

\* The row INSERT adds to the table of manager m for key k and value v, with
\* the id AUTOINCREMENT gives it:
\*   users    (id, username k, email k)
\*   orders   (id, user_id k, total_amount v, status 'pending', created_at now)
\*   products (id, name k, stock_quantity v)
NewRow(m, id, k, v) ==
    CASE m = "users" -> [id |-> id, username |-> k, email |-> k]
      [] m = "orders" -> [id |-> id, user_id |-> k, total_amount |-> v,
                          status |-> "pending", created_at |-> clock]
      [] m = "products" -> [id |-> id, name |-> k, stock_quantity |-> v]

\* The record a getByX starts from: {0, "", ...}.
Sentinel(m) ==
    CASE m = "users" -> [id |-> 0, username |-> 0, email |-> 0]
      [] m = "orders" -> [id |-> 0, user_id |-> 0, total_amount |-> 0,
                          status |-> "", created_at |-> 0]
      [] m = "products" -> [id |-> 0, name |-> 0, stock_quantity |-> 0]

\* Positions of the rows of table tb with identity id (none or one).
RowsWithId(tb, id) == {i \in 1..Len(tb.rows) : tb.rows[i].id = id}

\* Results sqlite3_step can give for the INSERT of key k into the table of
\* manager m: SQLITE_CONSTRAINT for a username that exists (UNIQUE), else
\* SQLITE_DONE or an error of the engine (disk full, I/O).
InsertResults(m, k) ==
    IF m = "users" /\ \E i \in 1..Len(tables[m].rows) : tables[m].rows[i].username = k
    THEN {"constraint"}
    ELSE {"done", "error"}

\* Table tb after a successful INSERT.
Inserted(m, tb, k, v) ==
    [rows |-> Append(tb.rows, NewRow(m, tb.seq + 1, k, v)), seq |-> tb.seq + 1]

\* Table tb after UPDATE ... WHERE id = ?: users get a new email, orders a
\* new status, products a new stock_quantity.
Updated(m, tb, id, v) ==
    [tb EXCEPT !.rows =
        [i \in 1..Len(tb.rows) |->
            IF tb.rows[i].id # id THEN tb.rows[i]
            ELSE CASE m = "users" -> [tb.rows[i] EXCEPT !.email = v]
                   [] m = "orders" -> [tb.rows[i] EXCEPT !.status = "paid"]
                   [] m = "products" -> [tb.rows[i] EXCEPT !.stock_quantity = v]]]

\* Table tb after DELETE ... WHERE id = ?.
Deleted(tb, id) ==
    [tb EXCEPT !.rows = SelectSeq(tb.rows, LAMBDA r : r.id # id)]

\* ORDER BY: r comes before q in the result of select_all of manager m
\* (users ORDER BY id, orders ORDER BY created_at DESC, products ORDER BY
\* name); rows that tie come in the order of this build of the engine.
\* Mutant: an engine whose order of ties changes as time passes.
TieBeforeAsTimeGoes(r, q) == IF clock = 1 THEN r.id < q.id ELSE r.id > q.id

TieBefore(r, q) == IF tieOrder = "rowid_asc" THEN r.id < q.id ELSE r.id > q.id

ComesBefore(m, r, q) ==
    CASE m = "users" -> r.id < q.id
      [] m = "orders" -> \/ r.created_at > q.created_at
                         \/ r.created_at = q.created_at /\ TieBefore(r, q)
      [] m = "products" -> \/ r.name < q.name
                           \/ r.name = q.name /\ TieBefore(r, q)

\* The rows of a SELECT without WHERE in the order of its ORDER BY.
RECURSIVE Sorted(_, _)
Sorted(m, rs) ==
    IF rs = {} THEN <<>>
    ELSE LET first == CHOOSE r \in rs : \A q \in rs \ {r} : ComesBefore(m, r, q)
         IN <<first>> \o Sorted(m, rs \ {first})

SelectAll(m) == Sorted(m, {tables[m].rows[i] : i \in 1..Len(tables[m].rows)})

\* SELECT ... WHERE id = ?: the rows the statement steps through, none or
\* one.
SelectById(m, id) == SelectSeq(tables[m].rows, LAMBDA r : r.id = id)

RECURSIVE SumAmounts(_)
SumAmounts(rs) ==
    IF rs = <<>> THEN 0 ELSE Head(rs).total_amount + SumAmounts(Tail(rs))

\* SELECT COALESCE(SUM(total_amount), 0) FROM orders WHERE user_id = ?
\* always gives one row.
SelectTotalAmount(k) ==
    SumAmounts(SelectSeq(tables["orders"].rows, LAMBDA r : r.user_id = k))

\* SELECT COUNT(*) FROM orders WHERE status = ? always gives one row.
SelectCount(st) ==
    Len(SelectSeq(tables["orders"].rows, LAMBDA r : r.status = st))

(***************************************************************************)
(* Operations of UserManager, OrderManager and ProductManager              *)
(***************************************************************************)

\* The statement an operation resets, binds and steps.
StmtOf(op) ==
    CASE op \in {"create", "batch"} -> "insert"
      [] op = "update" -> "update"
      [] op = "delete" -> "delete"
      [] op = "getById" -> "select_by_id"
      [] op = "getAll" -> "select_all"
      [] OTHER -> "aggregate"

\* std::lock_guard<std::mutex> lock(operation_mutex_) at the start of every
\* operation; `free` is what the lock finds. The thread then holds the
\* mutex of manager m until the operation returns.
TMLockWith(t, m, op, id, k, v, b, free) ==
    /\ pc[t] = "idle"
    /\ mpc[t] = "idle"
    /\ instance[m]
    /\ free
    /\ op = "create" => tables[m].seq < MaxTableRows /\ okCreates[m] < MaxTableRows
    /\ op = "batch" => tables[m].seq + Len(b) <= MaxTableRows
    /\ opMutex' = [opMutex EXCEPT ![m] = t]
    /\ mpc' = [mpc EXCEPT ![t] = IF op = "batch" THEN "b_begin" ELSE "step"]
    /\ call' = [call EXCEPT ![t] =
                  [mgr |-> m, op |-> op, id |-> id, key |-> k, val |-> v,
                   batch |-> b, i |-> 1, before |-> tables[m].rows]]
    /\ mobs' = NoMObs
    /\ UNCHANGED <<dbVars, instance, prepared, res, histVarsTM>>
    /\ UNCHANGED <<vars, xVars>>

\* Mutant: an operation that does not wait for operation_mutex_.
TMLockNoMutex(t, m, op, id, k, v, b) == TMLockWith(t, m, op, id, k, v, b, TRUE)

TMLock(t, m, op, id, k, v, b) == TMLockWith(t, m, op, id, k, v, b, opMutex[m] = 0)

\* History: a table that changes forgets what its getAll returned last.
NoteWrites ==
    lastAll' = [x \in Managers |-> IF tables'[x] = tables[x] THEN lastAll[x] ELSE <<>>]

\* Mutant: an engine that reports success for a nullptr statement.
NullStepDone == "done"

\* What sqlite3_bind_* and sqlite3_step give for a nullptr statement:
\* SQLITE_MISUSE (sqlite3_reset of nullptr is a no-op).
NullStep == "misuse"

\* sqlite3_step of the operation's statement on the shared connection. A
\* nullptr statement gives SQLITE_MISUSE and touches nothing.
TMStep(t) ==
    /\ mpc[t] = "step"
    /\ mpc' = [mpc EXCEPT ![t] = "ret"]
    /\ LET c == call[t]
           m == c.mgr
       IN IF StmtOf(c.op) \notin prepared[m]
          THEN /\ res' = [res EXCEPT ![t] = [code |-> NullStep, n |-> 0, data |-> <<>>]]
               /\ UNCHANGED dbVars
          ELSE CASE c.op = "create" ->
                      \E r \in InsertResults(m, c.key) :
                          /\ res' = [res EXCEPT ![t] = [code |-> r, n |-> 0, data |-> 0]]
                          /\ IF r = "done"
                             THEN /\ tables' = [tables EXCEPT ![m] = Inserted(m, @, c.key, c.val)]
                                  /\ changes' = 1
                             ELSE UNCHANGED <<tables, changes>>
                          /\ UNCHANGED <<saved, inTxn, clock, tieOrder>>
                 [] c.op = "update" ->
                      /\ res' = [res EXCEPT ![t] =
                                   [code |-> "done", n |-> Cardinality(RowsWithId(tables[m], c.id)),
                                    data |-> 0]]
                      /\ tables' = [tables EXCEPT ![m] = Updated(m, @, c.id, c.val)]
                      /\ changes' = Cardinality(RowsWithId(tables[m], c.id))
                      /\ UNCHANGED <<saved, inTxn, clock, tieOrder>>
                 [] c.op = "delete" ->
                      /\ res' = [res EXCEPT ![t] =
                                   [code |-> "done", n |-> Cardinality(RowsWithId(tables[m], c.id)),
                                    data |-> 0]]
                      /\ tables' = [tables EXCEPT ![m] = Deleted(@, c.id)]
                      /\ changes' = Cardinality(RowsWithId(tables[m], c.id))
                      /\ UNCHANGED <<saved, inTxn, clock, tieOrder>>
                 [] c.op = "getById" ->
                      /\ res' = [res EXCEPT ![t] =
                                   IF SelectById(m, c.id) = <<>>
                                   THEN [code |-> "done", n |-> 0, data |-> 0]
                                   ELSE [code |-> "row", n |-> 0, data |-> Head(SelectById(m, c.id))]]
                      /\ UNCHANGED dbVars
                 [] c.op = "getAll" ->
                      /\ res' = [res EXCEPT ![t] = [code |-> "done", n |-> 0, data |-> SelectAll(m)]]
                      /\ UNCHANGED dbVars
                 [] c.op = "getTotalAmountByUserId" ->
                      /\ res' = [res EXCEPT ![t] =
                                   [code |-> "row", n |-> 0, data |-> SelectTotalAmount(c.key)]]
                      /\ UNCHANGED dbVars
                 [] c.op = "getOrderCountByStatus" ->
                      /\ res' = [res EXCEPT ![t] =
                                   [code |-> "row", n |-> 0, data |-> SelectCount(c.key)]]
                      /\ UNCHANGED dbVars
                 [] c.op = "getStockQuantity" ->
                      /\ res' = [res EXCEPT ![t] =
                                   IF SelectById(m, c.id) = <<>>
                                   THEN [code |-> "done", n |-> 0, data |-> 0]
                                   ELSE [code |-> "row", n |-> 0,
                                         data |-> Head(SelectById(m, c.id)).stock_quantity]]
                      /\ UNCHANGED dbVars
    /\ mobs' = NoMObs
    /\ NoteWrites
    /\ UNCHANGED <<mgrVars, call, okCreates>>
    /\ UNCHANGED <<vars, xVars>>

\* return result == SQLITE_DONE && sqlite3_changes(db_connection_.get()) > 0
\* of update and delete; n is what sqlite3_changes gives when it is called.
WriteResultWith(t, n) == res[t].code = "done" /\ n > 0

WriteResult(t) == WriteResultWith(t, changes)

\* Mutant: a create that takes every result of the step but a misuse for
\* success.
CreateResultAnyCode(t) == res[t].code # "misuse"

\* return result == SQLITE_DONE of create.
CreateResult(t) == res[t].code = "done"

\* What getStockQuantity returns when its step gave no row.
NoStock == -1

\* What the operation of thread t returns after its step.
ReturnValue(t) ==
    LET c == call[t]
        r == res[t]
    IN CASE c.op = "create" -> CreateResult(t)
         [] c.op \in {"update", "delete"} -> WriteResult(t)
         [] c.op = "getById" -> IF r.code = "row" THEN r.data ELSE Sentinel(c.mgr)
         [] c.op = "getAll" -> r.data
         [] c.op \in {"getTotalAmountByUserId", "getOrderCountByStatus"} ->
                IF r.code = "row" THEN r.data ELSE 0
         [] c.op = "getStockQuantity" -> IF r.code = "row" THEN r.data ELSE NoStock

\* The operation of thread t returns value: ~lock_guard releases the mutex.
\* (The step that returns has fixed tables' before.)
TMFinish(t, value) ==
    /\ opMutex' = [opMutex EXCEPT ![call[t].mgr] = 0]
    /\ mpc' = [mpc EXCEPT ![t] = "idle"]
    /\ call' = [call EXCEPT ![t] = NoCall]
    /\ res' = [res EXCEPT ![t] = NoRes]
    /\ mobs' = [thread |-> t, call |-> call[t], res |-> res[t], result |-> value,
                prev |-> lastAll[call[t].mgr]]
    /\ okCreates' = IF call[t].op = "create"
                    THEN [okCreates EXCEPT ![call[t].mgr] = IF value THEN @ + 1 ELSE @]
                    ELSE okCreates
    /\ lastAll' = [x \in Managers |->
                     IF x = call[t].mgr /\ call[t].op = "getAll" THEN <<value>>
                     ELSE IF tables'[x] = tables[x] THEN lastAll[x] ELSE <<>>]
    /\ UNCHANGED <<instance, prepared>>
    /\ UNCHANGED <<vars, xVars>>

TMReturn(t) ==
    /\ mpc[t] = "ret"
    /\ UNCHANGED dbVars
    /\ TMFinish(t, ReturnValue(t))

(***************************************************************************)
(* createUsersTransaction, createOrdersTransaction,                        *)
(* createProductsTransaction                                               *)
(***************************************************************************)

\* sqlite3_exec(db, "BEGIN TRANSACTION;"): an error when the connection is
\* inside a transaction already, and then return false. (History: before
\* keeps the rows of the table when the transaction began.)
BatchBegin(t) ==
    /\ mpc[t] = "b_begin"
    /\ IF inTxn
       THEN /\ UNCHANGED dbVars
            /\ TMFinish(t, FALSE)
       ELSE /\ inTxn' = TRUE
            /\ saved' = tables
            /\ mpc' = [mpc EXCEPT ![t] = "b_insert"]
            /\ call' = [call EXCEPT ![t].before = tables[call[t].mgr].rows]
            /\ mobs' = NoMObs
            /\ UNCHANGED <<tables, changes, clock, tieOrder, mgrVars, res, histVarsTM>>
            /\ UNCHANGED <<vars, xVars>>

\* One iteration of the loop: reset, bind and step insert_stmt_ for the
\* next record; anything but SQLITE_DONE leads to ROLLBACK.
BatchInsert(t) ==
    /\ mpc[t] = "b_insert"
    /\ call[t].i <= Len(call[t].batch)
    /\ LET c == call[t]
           m == c.mgr
           k == c.batch[c.i]
       IN \E r \in IF "insert" \in prepared[m] THEN InsertResults(m, k) ELSE {NullStep} :
            /\ res' = [res EXCEPT ![t] = [code |-> r, n |-> 0, data |-> 0]]
            /\ IF r = "done"
               THEN /\ tables' = [tables EXCEPT ![m] = Inserted(m, @, k, 1)]
                    /\ changes' = 1
                    /\ call' = [call EXCEPT ![t].i = @ + 1]
                    /\ UNCHANGED mpc
               ELSE /\ mpc' = [mpc EXCEPT ![t] = "b_rollback"]
                    /\ UNCHANGED <<tables, changes, call>>
    /\ mobs' = NoMObs
    /\ NoteWrites
    /\ UNCHANGED <<saved, inTxn, clock, tieOrder, mgrVars, okCreates>>
    /\ UNCHANGED <<vars, xVars>>

\* After the loop: sqlite3_exec(db, "COMMIT;"); return true, or on an error
\* go on to ROLLBACK.
BatchCommit(t) ==
    /\ mpc[t] = "b_insert"
    /\ call[t].i > Len(call[t].batch)
    /\ \E r \in IF inTxn THEN {"ok", "error"} ELSE {"error"} :
        IF r = "ok"
        THEN /\ inTxn' = FALSE
             /\ saved' = [m \in Managers |-> EmptyTable]
             /\ UNCHANGED <<tables, changes, clock, tieOrder>>
             /\ TMFinish(t, TRUE)
        ELSE /\ mpc' = [mpc EXCEPT ![t] = "b_rollback"]
             /\ res' = [res EXCEPT ![t] = [code |-> "commit_error", n |-> 0, data |-> 0]]
             /\ mobs' = NoMObs
             /\ UNCHANGED <<dbVars, mgrVars, call, histVarsTM>>
             /\ UNCHANGED <<vars, xVars>>

\* Mutant: a failed batch that returns without ROLLBACK.
BatchNoRollback(t) ==
    /\ mpc[t] = "b_rollback"
    /\ UNCHANGED dbVars
    /\ TMFinish(t, FALSE)

\* sqlite3_exec(db, "ROLLBACK;") with its result ignored; return false.
BatchRollback(t) ==
    /\ mpc[t] = "b_rollback"
    /\ IF inTxn
       THEN /\ tables' = saved
            /\ inTxn' = FALSE
            /\ saved' = [m \in Managers |-> EmptyTable]
       ELSE UNCHANGED <<tables, inTxn, saved>>
    /\ UNCHANGED <<changes, clock, tieOrder>>
    /\ TMFinish(t, FALSE)

(***************************************************************************)
(* getInstance: construction of the managers on the one connection         *)
(***************************************************************************)

\* UserManager::getInstance, OrderManager::getInstance,
\* ProductManager::getInstance: std::call_once makes the manager, whose
\* constructor runs prepareStatements. The result of
\* every sqlite3_prepare_v2 is dropped: a statement that failed to prepare
\* stays nullptr, the constructor returns and the instance is handed out.
Construct(t, m) ==
    /\ pc[t] = "idle"
    /\ mpc[t] = "idle"
    /\ ~instance[m]
    /\ \E failed \in SUBSET Stmts :
        /\ Cardinality(failed) <= MaxNullStmts
        /\ prepared' = [prepared EXCEPT ![m] = Stmts \ failed]
    /\ instance' = [instance EXCEPT ![m] = TRUE]
    /\ mobs' = [thread |-> t, call |-> [mgr |-> m, op |-> "construct"]]
    /\ UNCHANGED <<dbVars, opMutex, opVars, histVarsTM>>
    /\ UNCHANGED <<vars, xVars>>

\* CURRENT_TIMESTAMP moves on by a second.
Tick ==
    /\ clock < MaxClock
    /\ clock' = clock + 1
    /\ mobs' = NoMObs
    /\ UNCHANGED <<tables, saved, inTxn, changes, tieOrder, mgrVars, opVars, histVarsTM>>
    /\ UNCHANGED <<vars, xVars>>

\* The state after DatabaseManager's constructor and the first getInstance
\* of each manager, with every statement prepared. The order in which the engine
\* gives rows that tie on the ORDER BY key is fixed by the build.
TMReady ==
    /\ tables = [m \in Managers |-> EmptyTable]
    /\ saved = [m \in Managers |-> EmptyTable]
    /\ inTxn = FALSE
    /\ changes = 0
    /\ clock = 1
    /\ tieOrder \in {"rowid_asc", "rowid_desc"}
    /\ instance = [m \in Managers |-> TRUE]
    /\ prepared = [m \in Managers |-> Stmts]
    /\ opMutex = [m \in Managers |-> 0]
    /\ mpc = [t \in Threads |-> "idle"]
    /\ call = [t \in Threads |-> NoCall]
    /\ res = [t \in Threads |-> NoRes]
    /\ mobs = NoMObs
    /\ okCreates = [m \in Managers |-> 0]
    /\ lastAll = [m \in Managers |-> <<>>]

InitReady == CoordInit /\ TMReady /\ XInit

\* The batches a caller passes: sequences of keys of length 0..MaxBatch.
Batches == UNION {[1..n -> Keys] : n \in 0..MaxBatch}

\* Threads that call create on the three managers, as
\* demonstrateConcurrentOperations does.
NextCreate ==
    \E t \in Threads :
        \/ \E m \in Managers, k \in Keys, v \in Vals : TMLock(t, m, "create", 0, k, v, <<>>)
        \/ TMStep(t)
        \/ TMReturn(t)

SpecCreate == InitReady /\ [][NextCreate]_allVars

\* Threads that create, update and delete users while products are created.
NextWrite ==
    \E t \in Threads :
        \/ \E m \in {"users", "products"}, k \in Keys, v \in Vals :
               TMLock(t, m, "create", 0, k, v, <<>>)
        \/ \E id \in Keys, v \in Vals : TMLock(t, "users", "update", id, 0, v, <<>>)
        \/ \E id \in Keys : TMLock(t, "users", "delete", id, 0, 0, <<>>)
        \/ TMStep(t)
        \/ TMReturn(t)

SpecWrite == InitReady /\ [][NextWrite]_allVars

\* A run that works on the table of manager m alone.
OnlyTable(m) == \A x \in Managers \ {m} : tables[x].seq = 0

\* Threads that create rows in one table and list the tables while time
\* passes.
NextQuery ==
    \/ Tick
    \/ \E t \in Threads :
        \/ \E m \in Managers, k \in Keys, v \in Vals :
               OnlyTable(m) /\ TMLock(t, m, "create", 0, k, v, <<>>)
        \/ \E m \in Managers : TMLock(t, m, "getAll", 0, 0, 0, <<>>)
        \/ TMStep(t)
        \/ TMReturn(t)

SpecQuery == InitReady /\ [][NextQuery]_allVars

\* Threads that create and delete rows in one table and look them up.
NextLookup ==
    \E t \in Threads :
        \/ \E m \in Managers, k \in Keys, v \in Vals :
               OnlyTable(m) /\ TMLock(t, m, "create", 0, k, v, <<>>)
        \/ \E id \in Keys : TMLock(t, "users", "delete", id, 0, 0, <<>>)
        \/ \E m \in {"users", "products"}, id \in Keys : TMLock(t, m, "getById", id, 0, 0, <<>>)
        \/ \E k \in Keys : TMLock(t, "orders", "getTotalAmountByUserId", 0, k, 0, <<>>)
        \/ \E st \in Statuses : TMLock(t, "orders", "getOrderCountByStatus", 0, st, 0, <<>>)
        \/ \E id \in Keys : TMLock(t, "products", "getStockQuantity", id, 0, 0, <<>>)
        \/ TMStep(t)
        \/ TMReturn(t)

SpecLookup == InitReady /\ [][NextLookup]_allVars

\* Threads that create users or orders in batches, and users one by one.
NextBatch ==
    \E t \in Threads :
        \/ \E m \in {"users", "orders"}, b \in Batches :
               OnlyTable(m) /\ TMLock(t, m, "batch", 0, 0, 0, b)
        \/ \E k \in Keys, v \in Vals :
               OnlyTable("users") /\ TMLock(t, "users", "create", 0, k, v, <<>>)
        \/ BatchBegin(t)
        \/ BatchInsert(t)
        \/ BatchCommit(t)
        \/ BatchRollback(t)
        \/ TMStep(t)
        \/ TMReturn(t)

SpecBatch == InitReady /\ [][NextBatch]_allVars

\* Batches of UserManager next to single creates of OrderManager, on the one
\* connection the two managers share.
NextShared ==
    \E t \in Threads :
        \/ \E b \in Batches : TMLock(t, "users", "batch", 0, 0, 0, b)
        \/ \E k \in Keys, v \in Vals : TMLock(t, "orders", "create", 0, k, v, <<>>)
        \/ BatchBegin(t)
        \/ BatchInsert(t)
        \/ BatchCommit(t)
        \/ BatchRollback(t)
        \/ TMStep(t)
        \/ TMReturn(t)

SpecShared == InitReady /\ [][NextShared]_allVars

\* Threads that create users in batches and one by one and read them.
NextBatchRead ==
    \E t \in Threads :
        \/ \E b \in Batches : TMLock(t, "users", "batch", 0, 0, 0, b)
        \/ \E k \in Keys, v \in Vals : TMLock(t, "users", "create", 0, k, v, <<>>)
        \/ TMLock(t, "users", "getAll", 0, 0, 0, <<>>)
        \/ \E id \in Keys : TMLock(t, "users", "getById", id, 0, 0, <<>>)
        \/ BatchBegin(t)
        \/ BatchInsert(t)
        \/ BatchCommit(t)
        \/ BatchRollback(t)
        \/ TMStep(t)
        \/ TMReturn(t)

SpecBatchRead == InitReady /\ [][NextBatchRead]_allVars

\* Threads that call UserManager::getInstance and use the manager, whatever
\* became of its statements.
NextPrep ==
    \E t \in Threads :
        \/ Construct(t, "users")
        \/ \E k \in Keys, v \in Vals : TMLock(t, "users", "create", 0, k, v, <<>>)
        \/ \E id \in Keys, v \in Vals : TMLock(t, "users", "update", id, 0, v, <<>>)
        \/ \E id \in Keys : TMLock(t, "users", "getById", id, 0, 0, <<>>)
        \/ TMLock(t, "users", "getAll", 0, 0, 0, <<>>)
        \/ \E b \in Batches : TMLock(t, "users", "batch", 0, 0, 0, b)
        \/ BatchBegin(t)
        \/ BatchInsert(t)
        \/ BatchCommit(t)
        \/ BatchRollback(t)
        \/ TMStep(t)
        \/ TMReturn(t)

SpecPrep == Init /\ [][NextPrep]_allVars

\* Threads that call the coordinator's public functions and create rows
\* through the multi-connection order and product managers.
\* MultiConnectionProductManager::getProductByName and getProductById: no
\* lock, no statement, return {0, "", "", 0.0, 0, "", ""}. (History: rows
\* keeps what the products connection shows at the call.)
MCGetProductByName(t, v) ==
    /\ pc[t] = "idle"
    /\ mpc[t] = "idle"
    /\ mobs' = [thread |-> t, call |-> [mgr |-> "products", op |-> "mc_getByName", key |-> v],
                result |-> Sentinel("products"), rows |-> view[ConnOf.products]]
    /\ obs' = NoObs
    /\ UNCHANGED <<coordVars, connVars, threadVars, histVars, xVars>>
    /\ UNCHANGED <<dbVars, mgrVars, opVars, histVarsTM>>

MCGetProductById(t, id) ==
    /\ pc[t] = "idle"
    /\ mpc[t] = "idle"
    /\ mobs' = [thread |-> t, call |-> [mgr |-> "products", op |-> "mc_getById", key |-> id],
                result |-> Sentinel("products"), rows |-> view[ConnOf.products]]
    /\ obs' = NoObs
    /\ UNCHANGED <<coordVars, connVars, threadVars, histVars, xVars>>
    /\ UNCHANGED <<dbVars, mgrVars, opVars, histVarsTM>>

\* MultiConnectionProductManager::deleteProduct: return false.
MCDeleteProduct(t, id) ==
    /\ pc[t] = "idle"
    /\ mpc[t] = "idle"
    /\ mobs' = [thread |-> t, call |-> [mgr |-> "products", op |-> "mc_delete", key |-> id],
                result |-> FALSE, rows |-> view[ConnOf.products]]
    /\ obs' = NoObs
    /\ UNCHANGED <<coordVars, connVars, threadVars, histVars, xVars>>
    /\ UNCHANGED <<dbVars, mgrVars, opVars, histVarsTM>>

\* MultiConnectionProductManager::getStockQuantity: return 0.
MCGetStockQuantity(t, id) ==
    /\ pc[t] = "idle"
    /\ mpc[t] = "idle"
    /\ mobs' = [thread |-> t, call |-> [mgr |-> "products", op |-> "mc_getStockQuantity", key |-> id],
                result |-> 0, rows |-> view[ConnOf.products]]
    /\ obs' = NoObs
    /\ UNCHANGED <<coordVars, connVars, threadVars, histVars, xVars>>
    /\ UNCHANGED <<dbVars, mgrVars, opVars, histVarsTM>>

\* MultiConnectionProductManager::getAllProducts and
\* MultiConnectionOrderManager::getAllOrders: under the manager's mutex, step
\* select_all to its end and return the rows the connection shows.
MCGetAll(t, m) ==
    /\ pc[t] = "idle"
    /\ mpc[t] = "idle"
    /\ opMutex[m] = 0
    /\ mobs' = [thread |-> t, call |-> [mgr |-> m, op |-> "mc_getAll", key |-> 0],
                result |-> GetAll(ConnOf[m]), rows |-> view[ConnOf[m]]]
    /\ obs' = NoObs
    /\ UNCHANGED <<coordVars, connVars, threadVars, histVars, xVars>>
    /\ UNCHANGED <<dbVars, mgrVars, opVars, histVarsTM>>

\* Threads that create orders and products through the multi-connection
\* managers and look products up.
NextStub ==
    \E t \in Threads :
        \/ \E m \in {"orders", "products"} : MCCreateLock(t, m)
        \/ \E v \in Vals : MCCreateStep(t, v)
        \/ \E v \in Vals : MCGetProductByName(t, v)
        \/ \E id \in 1..MaxRows : MCGetProductById(t, id)
        \/ \E id \in 1..MaxRows : MCDeleteProduct(t, id)
        \/ \E id \in 1..MaxRows : MCGetStockQuantity(t, id)
        \/ \E m \in {"orders", "products"} : MCGetAll(t, m)

SpecStub == Init /\ [][NextStub]_allVars

NextConn ==
    \E t \in Threads :
        \/ mpc[t] = "idle" /\ DirectCall(t)
        \/ CoordStep(t)
        \/ \E m \in {"orders", "products"} : MCCreateLock(t, m)
        \/ \E v \in Vals : MCCreateStep(t, v)

SpecConn == Init /\ [][NextConn]_allVars

\* One thread works through the multi-connection Table Managers and never
\* touches the coordinator; the other threads call the coordinator's public
\* functions and never write a table.
NextIsolation ==
    \/ \E t \in Threads : t < NumThreads /\ (DirectCall(t) \/ CoordStep(t))
    \/ Create(NumThreads)

SpecIsolation == Init /\ [][NextIsolation]_allVars

\* The same, with the table-local batches of the multi-connection managers.
LocalBatch(t) ==
    \/ \E n \in 1..MaxRows : MCBatchBegin(t, "orders", n)
    \/ MCCreateProductsTransaction(t)
    \/ \E v \in Vals : MCBatchInsert(t, v)
    \/ MCBatchCommit(t)

NextLocalBatch ==
    \/ \E t \in Threads : t < NumThreads /\ (DirectCall(t) \/ CoordStep(t))
    \/ Create(NumThreads) /\ mpc[NumThreads] = "idle"
    \/ LocalBatch(NumThreads)

SpecLocalBatch == Init /\ [][NextLocalBatch]_allVars

\* Threads are scheduled fairly and a mutex that keeps becoming free is
\* eventually acquired: every step inside a coordinator call is taken if it
\* stays or keeps becoming possible.
FairSpec == Spec /\ \A t \in Threads : SF_allVars(CoordStep(t))

(***************************************************************************)
(* Reading obs                                                             *)
(***************************************************************************)

\* The coordinator function whose return obs records.
ObsOp ==
    CASE obs.thread = 0 \/ ~obs.entered -> "none"
      [] obs.via \in {"begin", "ctor"} -> "begin"
      [] obs.via \in {"commit", "dt_commit"} -> "commit"
      [] obs.via \in {"rollback", "dt_rollback", "dtor"} -> "rollback"
      [] OTHER -> "none"

\* The call issued cmd to connection c.
Issued(l, cmd, c) == \E i \in 1..Len(l) : l[i].cmd = cmd /\ l[i].conn = c

\* Some cmd of the call succeeded / failed.
SomeOk(l, cmd) == \E i \in 1..Len(l) : l[i].cmd = cmd /\ l[i].ok
SomeFailed(l, cmd) == \E i \in 1..Len(l) : l[i].cmd = cmd /\ ~l[i].ok

\* The returning call left the flag, the connections and the tables as its
\* last step found them.
NothingChanged ==
    /\ in_distributed_transaction = obs.pre.flag
    /\ txn = obs.pre.txn
    /\ db = obs.pre.db
    /\ view = obs.pre.view

\* Thread t is inside a call of beginDistributedTransaction.
InBegin(t) == pc[t] # "idle" /\ CoordOp(t) = "begin"

(***************************************************************************)
(* Claims                                                                  *)
(***************************************************************************)

\* C1: when BEGIN IMMEDIATE succeeded on some connections and then failed
\* on a later one, begin returns false and, when it has returned, no
\* connection is inside a transaction and the coordinator is Idle.
C1_BeginFailureRollsBack ==
    (ObsOp = "begin" /\ SomeOk(obs.log, "BEGIN") /\ SomeFailed(obs.log, "BEGIN"))
        => /\ obs.result = "false"
           /\ \A c \in Conns : txn[c] = 0
           /\ ~in_distributed_transaction

\* C2: when a COMMIT of a commit call fails, ROLLBACK is issued to every
\* connection, the call returns false, and afterwards the coordinator is
\* not Active and no connection is inside a transaction.
C2_CommitFailureRollsBack ==
    (ObsOp = "commit" /\ SomeFailed(obs.log, "COMMIT"))
        => /\ obs.result = "false"
           /\ \A c \in Conns : Issued(obs.log, "ROLLBACK", c)
           /\ ~in_distributed_transaction
           /\ \A c \in Conns : txn[c] = 0

\* C3: every call of begin, commit and rollback eventually returns to its
\* caller under fair scheduling.
C3_EveryCallReturns ==
    \A t \in Threads : (pc[t] # "idle") ~> (pc[t] = "idle")

\* C4 as stated: at most one begin returns true between two successful
\* ends, and when the begin calls of a round have all returned, exactly one
\* of them returned true.
C4_ExactlyOneBeginWins ==
    /\ trueBegins <= 1
    /\ (roundBeginDone /\ \A t \in Threads : ~InBegin(t)) => trueBegins = 1

\* C4 as amended: at most one begin returns true between two commit or
\* rollback calls that returned true, and when the begin calls of a round
\* have all returned and no BEGIN IMMEDIATE failed, exactly one of them
\* returned true.
C4_AtMostOneActive ==
    /\ trueBegins <= 1
    /\ (roundBeginDone /\ ~roundExecFailed /\ \A t \in Threads : ~InBegin(t))
          => trueBegins = 1

\* C4 witness: a begin call has returned false while the one transaction
\* of the round is Active and no BEGIN IMMEDIATE failed.
C4_Witness ==
    /\ ObsOp = "begin"
    /\ obs.result = "false"
    /\ trueBegins = 1
    /\ ~roundExecFailed
    /\ \A t \in Threads : ~InBegin(t)

\* C5: a begin made while a transaction is Active returns false, the
\* constructor that made it throws and leaves no object (so no destructor
\* runs), no command is issued, and the flag, the connections' open
\* transactions and the uncommitted rows stay as they were.
C5_BeginWhileActiveChangesNothing ==
    (ObsOp = "begin" /\ obs.pre.flag)
        => /\ obs.result = "false"
           /\ obs.log = <<>>
           /\ in_distributed_transaction
           /\ NothingChanged
           /\ obs.via = "ctor" =>
                 /\ obj[obs.thread] = NoObject
                 /\ pc[obs.thread] = "idle"

\* C5 witness: a constructor has failed on an Active coordinator while a
\* connection held an uncommitted row.
C5_Witness ==
    /\ ObsOp = "begin"
    /\ obs.via = "ctor"
    /\ obs.pre.flag
    /\ obs.result = "false"
    /\ \E c \in Conns : txn[c] # 0 /\ view[c] # db[c]

\* C6: a successful commit makes every row created while the transaction
\* was Active visible to getAll on every table, on top of what the tables
\* held before begin; a rollback (explicit or by the destructor) leaves
\* every table as it was before begin. Transactions with a create during a
\* coordinator call or with a failed COMMIT are not covered.
C6_RoundTrip ==
    /\ (ObsOp = "commit" /\ obs.result = "true" /\ obs.pre.clean)
          => \A c \in Conns :
                /\ db[c] = obs.pre.snap[c] \o obs.pre.created[c]
                /\ GetAll(c) = db[c]
    /\ (ObsOp = "rollback" /\ obs.result = "true" /\ obs.pre.clean)
          => \A c \in Conns :
                /\ db[c] = obs.pre.snap[c]
                /\ GetAll(c) = obs.pre.snap[c]

\* C6 witness: a commit has succeeded on a transaction in which rows were
\* created through two Table Managers.
C6_Witness ==
    /\ ObsOp = "commit"
    /\ obs.via = "dt_commit"
    /\ obs.result = "true"
    /\ obs.pre.clean
    /\ Cardinality({c \in Conns : obs.pre.created[c] # <<>>}) >= 2

\* C6, the other half: a destructor has rolled back a transaction in which
\* rows were created through two Table Managers.
C6_WitnessRollback ==
    /\ ObsOp = "rollback"
    /\ obs.via = "dtor"
    /\ obs.result = "true"
    /\ obs.pre.clean
    /\ Cardinality({c \in Conns : obs.pre.created[c] # <<>>}) >= 2

\* C7: when the destructor of an object that was neither committed nor
\* rolled back has run, the coordinator is Idle and no connection holds a
\* transaction that the object's thread began.
C7_DestructorRollsBack ==
    (obs.thread # 0 /\ obs.via = "dtor" /\ ~obs.termAtCall)
        => /\ ~in_distributed_transaction
           /\ \A c \in Conns : txn[c] # ByObject(obs.thread)

\* C7 witness: a destructor has rolled back the connections of its object's
\* transaction.
C7_Witness ==
    /\ obs.thread # 0
    /\ obs.via = "dtor"
    /\ ~obs.termAtCall
    /\ obs.result = "true"
    /\ \A c \in Conns : Issued(obs.log, "ROLLBACK", c)
    /\ \A i \in 1..Len(obs.log) : obs.log[i].ok

\* C8: on an object that is committed or rolled back, commit() returns
\* false, rollback() and the destructor do nothing: none of them calls the
\* coordinator, issues a command or changes the coordinator, a connection
\* or the object's flags.
C8_TerminalObjectIsInert ==
    (obs.thread # 0 /\ obs.via \in {"dt_commit", "dt_rollback", "dtor"} /\ obs.termAtCall)
        => /\ ~obs.entered
           /\ obs.log = <<>>
           /\ NothingChanged
           /\ obs.via = "dt_commit" => obs.result = "false"
           /\ obs.via # "dtor" => obj[obs.thread] = obs.pre.obj[obs.thread]

\* C8 witness: commit() on a terminal object has returned false while a
\* transaction of another object was Active.
C8_Witness ==
    /\ obs.thread # 0
    /\ obs.via = "dt_commit"
    /\ obs.termAtCall
    /\ obs.result = "false"
    /\ in_distributed_transaction

\* C9: a rollback call that finds the coordinator Active issues ROLLBACK to
\* every connection, whatever the single results, and leaves it Idle; a
\* rollback call that finds it Idle issues nothing and changes nothing.
C9_RollbackIdempotent ==
    /\ (ObsOp = "rollback" /\ obs.pre.flag)
          => /\ \A c \in Conns : Issued(obs.log, "ROLLBACK", c)
             /\ obs.result = "true"
             /\ ~in_distributed_transaction
    /\ (ObsOp = "rollback" /\ ~obs.pre.flag)
          => /\ obs.result = "false"
             /\ obs.log = <<>>
             /\ NothingChanged

\* C9 witness: a rollback call has gone on to later connections after a
\* ROLLBACK that failed.
C9_Witness ==
    /\ ObsOp = "rollback"
    /\ obs.result = "true"
    /\ \E i, j \in 1..Len(obs.log) : i < j /\ ~obs.log[i].ok /\ obs.log[j].ok

\* C10: a commit call that finds the coordinator not Active returns false,
\* issues no command and changes neither the flag nor a connection.
C10_CommitWhenIdle ==
    (ObsOp = "commit" /\ ~obs.pre.flag)
        => /\ obs.result = "false"
           /\ obs.log = <<>>
           /\ ~in_distributed_transaction
           /\ NothingChanged

\* C10 witness: a commit call on an Idle coordinator has returned false
\* while a connection was inside a transaction.
C10_Witness ==
    /\ ObsOp = "commit"
    /\ ~obs.pre.flag
    /\ obs.result = "false"
    /\ \E c \in Conns : txn[c] # 0

\* C11: no connection is used by two threads at once: the coordinator never
\* runs BEGIN IMMEDIATE, COMMIT or ROLLBACK on a connection while another
\* thread is executing a Table Manager operation on that connection.
C11_NoSharedHandle ==
    [][\A t \in Threads, c \in Conns :
          CoordExec(t, c) => \A u \in Threads \ {t} : ~UsesConn(u, c)]_allVars

\* C12: for each Table Manager at most one thread is inside any of its
\* public operations at any time, so the steps of two operations on the same
\* manager never interleave.
C12_OneThreadPerManager ==
    \A m \in Managers :
        Cardinality({t \in Threads : mpc[t] # "idle" /\ call[t].mgr = m}) <= 1

\* C12 witness: a thread is between the step and the return of an update of
\* the user manager, holding its mutex, after a create of that manager went
\* through, and the other threads are outside.
C12_Witness ==
    \E t \in Threads :
        /\ mpc[t] = "ret"
        /\ call[t].mgr = "users"
        /\ call[t].op = "update"
        /\ opMutex["users"] = t
        /\ okCreates["users"] > 0
        /\ \A u \in Threads \ {t} : mpc[u] = "idle"

\* C13: with threads calling create concurrently on a Table Manager and no
\* other writer of its table, the rows of the table, which are the records
\* getAll returns, are as many as the create calls that returned true: no
\* successful create is lost and none is applied twice.
C13_RowsEqualTrueCreates ==
    \A m \in Managers :
        (\A t \in Threads : call[t].mgr # m) =>
            /\ Len(tables[m].rows) = okCreates[m]
            /\ Len(SelectAll(m)) = okCreates[m]

\* C13 witness: creates of the product manager returned true as often as the
\* table has room while a create of the user manager has just returned
\* false after an earlier one returned true, and no thread is inside.
C13_Witness ==
    /\ okCreates["products"] = MaxTableRows
    /\ okCreates["users"] = 1
    /\ mobs.thread # 0
    /\ mobs.call.mgr = "users"
    /\ mobs.call.op = "create"
    /\ mobs.result = FALSE
    /\ \A t \in Threads : mpc[t] = "idle"

\* C14: batch atomicity. For a batch of one record or more passed to
\* createXTransaction: if the insert of a record fails (or COMMIT fails) the
\* call returns false, the records after the failed one are not attempted
\* and the table has as many rows after the call as before it; if the call
\* returns true the table has grown by exactly the size of the batch.
C14_BatchAtomic ==
    (mobs.thread # 0 /\ mobs.call.op = "batch" /\ Len(mobs.call.batch) >= 1) =>
        LET c == mobs.call
            n == Len(tables[c.mgr].rows)
            n0 == Len(c.before)
        IN /\ mobs.res.code \in {"constraint", "error", "misuse", "commit_error"} =>
                 /\ mobs.result = FALSE
                 /\ n = n0
           /\ mobs.res.code \in {"constraint", "error", "misuse"} =>
                 c.i <= Len(c.batch)
           /\ mobs.result = TRUE => n = n0 + Len(c.batch)

\* C14 witness: a batch of two users has returned false after its first
\* record was inserted and its second, with the same username, failed.
C14_Witness ==
    /\ mobs.thread # 0
    /\ mobs.call.op = "batch"
    /\ mobs.call.mgr = "users"
    /\ Len(mobs.call.batch) = 2
    /\ mobs.call.i = 2
    /\ mobs.res.code = "constraint"
    /\ mobs.result = FALSE

\* C15: update and delete return true if and only if the call itself changed
\* at least one row of its table, whatever the other Table Managers do on
\* other threads.
C15_TrueIffChanged ==
    (mobs.thread # 0 /\ mobs.call.op \in {"update", "delete"}) =>
        (mobs.result = TRUE <=> mobs.res.n > 0)

\* C16: for every Table Manager, getByX(key) returns the stored record when
\* a row with that key exists and the sentinel record with identity 0 when
\* none exists. (The i-th product created on its connection has identity i.)
C16_GetByKey ==
    /\ (mobs.thread # 0 /\ mobs.call.op = "getById") =>
           LET rows == SelectById(mobs.call.mgr, mobs.call.id)
           IN mobs.result = IF rows = <<>> THEN Sentinel(mobs.call.mgr) ELSE Head(rows)
    /\ (mobs.thread # 0 /\ mobs.call.op = "mc_getByName") =>
           IF \E i \in 1..Len(mobs.rows) : mobs.rows[i] = mobs.call.key
           THEN mobs.result.name = mobs.call.key /\ mobs.result.id # 0
           ELSE mobs.result = Sentinel("products")
    /\ (mobs.thread # 0 /\ mobs.call.op = "mc_getById") =>
           IF mobs.call.key \in 1..Len(mobs.rows)
           THEN mobs.result.id = mobs.call.key
           ELSE mobs.result = Sentinel("products")

C18_ZeroOnNoMatch ==
    LET c == mobs.call
        rows == tables[c.mgr].rows
    IN /\ (mobs.thread # 0 /\ c.op = "getTotalAmountByUserId"
              /\ \A i \in 1..Len(rows) : rows[i].user_id # c.key) => mobs.result = 0
       /\ (mobs.thread # 0 /\ c.op = "getOrderCountByStatus"
              /\ \A i \in 1..Len(rows) : rows[i].status # c.key) => mobs.result = 0
       /\ (mobs.thread # 0 /\ c.op = "getStockQuantity"
              /\ \A i \in 1..Len(rows) : rows[i].id # c.id) => mobs.result = 0

\* C19: a Table Manager whose construction failed to prepare one of its
\* statements is never handed out by getInstance: every manager that callers
\* can reach has all its statements prepared.
C19_NoInstanceWithNullStatement ==
    \A m \in Managers : instance[m] => prepared[m] = Stmts

\* C20: an operation that binds and steps an unprepared (null) statement
\* fails safely: every step of it leaves its table and the statements as
\* they are, a single operation leaves the connection's transaction state
\* alone and a batch leaves it as it was before its BEGIN, a mutation
\* returns false, getAll returns the empty sequence and getById the
\* sentinel with identity 0.
C20_NullStatementFailsSafely ==
    [][\A t \in Threads :
          (/\ mpc[t] # "idle"
           /\ StmtOf(call[t].op) \notin prepared[call[t].mgr]
           /\ call[t].op = "batch" => Len(call[t].batch) >= 1
           /\ mpc'[t] # mpc[t]) =>
              /\ tables'[call[t].mgr] = tables[call[t].mgr]
              /\ prepared' = prepared
              /\ mpc[t] \in {"step", "ret"} => inTxn' = inTxn
              /\ mpc[t] = "b_begin" => (IF inTxn THEN inTxn' /\ mpc'[t] = "idle" ELSE inTxn')
              /\ mpc[t] = "b_insert" => inTxn' = inTxn /\ mpc'[t] = "b_rollback"
              /\ mpc[t] = "b_rollback" => ~inTxn'
              /\ mpc'[t] = "idle" =>
                    CASE call[t].op \in {"create", "update", "delete", "batch"} ->
                             mobs'.result = FALSE
                      [] call[t].op = "getAll" -> mobs'.result = <<>>
                      [] call[t].op = "getById" -> mobs'.result = Sentinel(call[t].mgr)
                      [] OTHER -> TRUE]_allVars

\* C20 witness: an update of a user that exists has returned false on a
\* manager whose update statement is null, and the user is as it was.
C20_Witness ==
    /\ mobs.thread # 0
    /\ mobs.call.op = "update"
    /\ "update" \notin prepared["users"]
    /\ mobs.res.code = "misuse"
    /\ mobs.result = FALSE
    /\ \E i \in 1..Len(tables["users"].rows) : tables["users"].rows[i].id = mobs.call.id
    /\ tables["users"].rows = mobs.call.before

\* C28: while a batch is in progress on a Table Manager no other operation
\* of that manager observes or acts on a partially inserted batch: no other
\* thread is inside the manager between the batch's BEGIN and its COMMIT or
\* ROLLBACK, and what getAll and getById return is what the table holds
\* with no batch of the manager under way.
C28_NoPartialBatchSeen ==
    LET InBatch(u, m) == /\ call[u].mgr = m
                         /\ call[u].op = "batch"
                         /\ mpc[u] \in {"b_insert", "b_rollback"}
    IN /\ \A t, u \in Threads :
              (t # u /\ InBatch(u, call[u].mgr)) => call[t].mgr # call[u].mgr
       /\ (mobs.thread # 0 /\ mobs.call.op \in {"getAll", "getById"}) =>
              /\ \A u \in Threads : ~InBatch(u, mobs.call.mgr)
              /\ mobs.call.op = "getAll" =>
                     {mobs.result[i] : i \in 1..Len(mobs.result)} =
                         {tables[mobs.call.mgr].rows[i] : i \in 1..Len(tables[mobs.call.mgr].rows)}
              /\ mobs.call.op = "getById" =>
                     mobs.result = IF SelectById(mobs.call.mgr, mobs.call.id) = <<>>
                                   THEN Sentinel(mobs.call.mgr)
                                   ELSE Head(SelectById(mobs.call.mgr, mobs.call.id))

\* C28 witness: getAll of the user manager has returned the two users of a
\* committed batch (no single create returned true).
C28_Witness ==
    /\ mobs.thread # 0
    /\ mobs.call.op = "getAll"
    /\ mobs.call.mgr = "users"
    /\ Len(mobs.result) = 2
    /\ okCreates["users"] = 0

\* C30: a distributed commit is not atomic. When a commit call's COMMIT
\* succeeded on the first k connections and failed on the next one, the rows
\* created under the transaction on the first k connections are committed
\* and stay so, and the rollback that follows discards the mutations on the
\* remaining connections: none of them is left inside a transaction or
\* showing uncommitted rows.
C30_PartialCommit ==
    (ObsOp = "commit" /\ SomeFailed(obs.log, "COMMIT")) =>
        \A c \in Conns :
            IF \E i \in 1..Len(obs.log) :
                   obs.log[i].cmd = "COMMIT" /\ obs.log[i].conn = c /\ obs.log[i].ok
            THEN /\ txn[c] = 0
                 /\ \A j \in 1..Len(obs.pre.created[c]) :
                        \E q \in 1..Len(db[c]) : db[c][q] = obs.pre.created[c][j]
            ELSE /\ txn[c] = 0
                 /\ view[c] = db[c]

\* C31: a row that a multi-connection Table Manager create reported as
\* inserted (it returned true) stays in the table whatever another thread
\* does with a distributed transaction: no step of a call of
\* rollbackDistributedTransaction() takes a row away from what a connection
\* sees. The thread that creates never begins a transaction.
C31_CreatedRowsStay ==
    [][\A t \in Threads, c \in Conns :
           (via[t] = "rollback" /\ pc[t] = "rb_loop" /\ log'[t] # log[t])
           => /\ Len(view'[c]) >= Len(view[c])
              /\ SubSeq(view'[c], 1, Len(view[c])) = view[c]]_allVars

\* C32: in single-connection mode the ROLLBACK of a failed batch of one
\* manager leaves the tables of the other managers as they are: with every
\* other thread outside its operation, whatever the other managers wrote
\* (and reported as done) during the batch stays applied.
C32_BatchLeavesOtherTables ==
    [][\A t \in Threads :
           (/\ mpc[t] = "b_rollback" /\ mpc'[t] = "idle"
            /\ \A u \in Threads \ {t} : mpc[u] = "idle")
           => \A x \in Managers \ {call[t].mgr} : tables'[x] = tables[x]]_allVars

\* C33: commit(), rollback() and the destructor of a DistributedTransaction
\* object end only the transaction that object began: a COMMIT or ROLLBACK
\* issued through an object never ends, on any connection, a transaction
\* opened by another object or by a direct begin call.
C33_OnlyOwnTransaction ==
    [][\A t \in Threads, c \in Conns :
           (/\ via[t] \in {"dt_commit", "dt_rollback", "dtor"}
            /\ pc[t] \in {"commit_loop", "rb_loop"}
            /\ log'[t] # log[t]
            /\ txn[c] # 0 /\ txn'[c] = 0)
           => txn[c] = ByObject(t)]_allVars

\* C34: whenever no coordinator call is in progress, the flag agrees with
\* the connections: it is true exactly when every connection has an open
\* transaction started by the coordinator, and false exactly when none has.
C34_FlagAgreesWithConnections ==
    (\A t \in Threads : pc[t] = "idle") =>
        IF in_distributed_transaction
        THEN \A c \in Conns : txn[c] # 0
        ELSE \A c \in Conns : txn[c] = 0

\* C35: when the coordinator is Active (the flag is set and no coordinator
\* call is running), a table-local batch called on a connection returns
\* false at once: it inserts nothing, ends no transaction of a connection and
\* leaves the flag set.
C35_LocalBatchRefused ==
    [][\A t \in Threads :
           (/\ in_distributed_transaction
            /\ \A u \in Threads : pc[u] = "idle"
            /\ mpc[t] = "idle"
            /\ mpc'[t] = "mcb_loop" \/ (obs'.via = "batch" /\ obs'.thread = t))
           => /\ obs'.via = "batch" /\ obs'.result = "false"
              /\ txn' = txn /\ db' = db /\ view' = view
              /\ in_distributed_transaction']_allVars

(***************************************************************************)
(* The generic wrapper. A SQL text is a sequence of statements; the engine *)
(* (sqlite3_exec) runs them in order, hands every result row to the        *)
(* callback it was given, and stops at the first statement that fails,     *)
(* keeping what the earlier statements did.                                *)
(***************************************************************************)
MaxWRows == 2
MaxStmts == 2

NullPtr == "nullptr"                \* argv[i] of a NULL column value
WIds == {"1", "2"}
WNames == {"x", NullPtr}
WColumns == <<"id", "name">>
WRows == {<<i, n>> : i \in WIds, n \in WNames}
SelectLists == {<<1, 2>>, <<2>>}    \* SELECT id, name   and   SELECT name

Stmt(kind, cols, row) == [kind |-> kind, cols |-> cols, row |-> row]
SelectStmts == {Stmt("select", l, <<>>) : l \in SelectLists}
BadStmt == Stmt("bad", <<>>, <<>>)
QueryStmts == SelectStmts \cup {BadStmt}
QueryTexts == UNION {[1..n -> QueryStmts] : n \in 1..MaxStmts}

EngineState == [table |-> wtable, txn |-> wtxn, saved |-> wsaved]
Ok(st, out) == [rc |-> "SQLITE_OK", err |-> "", st |-> st, out |-> out]
Err(st, msg) == [rc |-> "SQLITE_ERROR", err |-> msg, st |-> st, out |-> <<>>]

\* One statement on the wrapper's connection: what it leaves behind and the
\* rows (argv, col_names) it produces, in the engine's order.
StepStmt(stmt, st) ==
    CASE stmt.kind = "select" ->
            Ok(st, [i \in 1..Len(st.table) |->
                       [argv |-> [j \in 1..Len(stmt.cols) |-> st.table[i][stmt.cols[j]]],
                        col_names |-> [j \in 1..Len(stmt.cols) |-> WColumns[stmt.cols[j]]]]])
      [] stmt.kind = "insert" ->
            IF \E i \in 1..Len(st.table) : st.table[i][1] = stmt.row[1]
            THEN Err(st, "UNIQUE constraint failed: t.id")
            ELSE Ok([st EXCEPT !.table = Append(st.table, stmt.row)], <<>>)
      [] stmt.kind = "delete" ->
            Ok([st EXCEPT !.table = SelectSeq(st.table, LAMBDA r : r[1] # stmt.row[1])], <<>>)
      [] stmt.kind = "begin" ->
            IF st.txn THEN Err(st, "cannot start a transaction within a transaction")
            ELSE Ok([st EXCEPT !.txn = TRUE, !.saved = st.table], <<>>)
      [] stmt.kind = "commit" ->
            IF ~st.txn THEN Err(st, "cannot commit - no transaction is active")
            ELSE Ok([st EXCEPT !.txn = FALSE, !.saved = <<>>], <<>>)
      [] stmt.kind = "rollback" ->
            IF ~st.txn THEN Err(st, "cannot rollback - no transaction is active")
            ELSE Ok([st EXCEPT !.txn = FALSE, !.table = st.saved, !.saved = <<>>], <<>>)
      [] OTHER -> Err(st, "syntax error")

\* QueryCallbackData, with the handler invocations and the rows the engine
\* delivered kept beside it.
QueryCallbackData(callback) ==
    [column_names |-> <<>>, rows |-> <<>>, callback |-> callback,
     calls |-> <<>>, produced |-> <<>>]

\* The vector a std::vector was move-constructed from is empty.
MovedFrom(row) == <<>>

\* queryCallback: the first row fixes the column names; the row is stored
\* with NULL as the text "NULL"; then the handler, if any, is called with
\* the names and the local row, after that row was moved into rows.
queryCallback(data, argv, col_names) ==
    LET names == IF data.rows = <<>> /\ data.column_names = <<>>
                 THEN col_names ELSE data.column_names
        row == [i \in 1..Len(argv) |-> IF argv[i] = NullPtr THEN "NULL" ELSE argv[i]]
    IN  [data EXCEPT
            !.column_names = names,
            !.rows = Append(data.rows, row),
            !.calls = IF data.callback
                      THEN Append(data.calls, [column_names |-> names, row_values |-> MovedFrom(row)])
                      ELSE data.calls,
            !.produced = Append(data.produced, [argv |-> argv, col_names |-> col_names])]

RECURSIVE Deliver(_, _)
Deliver(out, data) ==
    IF out = <<>> THEN data
    ELSE Deliver(Tail(out), queryCallback(data, Head(out).argv, Head(out).col_names))

\* sqlite3_exec(db_, sql, callback, data, &err_msg); collect is FALSE when
\* the callback argument is nullptr.
RECURSIVE sqlite3_exec(_, _, _, _)
sqlite3_exec(sql, st, collect, data) ==
    IF sql = <<>> THEN [rc |-> "SQLITE_OK", err |-> "", st |-> st, data |-> data]
    ELSE LET r == StepStmt(Head(sql), st)
         IN  IF r.rc # "SQLITE_OK"
             THEN [rc |-> r.rc, err |-> r.err, st |-> st, data |-> data]
             ELSE sqlite3_exec(Tail(sql), r.st, collect,
                               IF collect THEN Deliver(r.out, data) ELSE data)

NoResult == [column_names |-> <<>>, rows |-> <<>>]
NotOpen == <<"database not open">>
ExecError(err_msg) == <<"SQL exec error: ", err_msg>>

\* What a wrapper call leaves behind when it returns.
WReturn(op, sql, r, ok, result) ==
    /\ wtable' = r.st.table
    /\ wtxn' = r.st.txn
    /\ wsaved' = r.st.saved
    /\ wobs' = [op |-> op, sql |-> sql, rc |-> r.rc, err |-> r.err, ok |-> ok,
                produced |-> r.data.produced, calls |-> r.data.calls,
                result |-> result]
    /\ UNCHANGED db_

NotOpened == [rc |-> "not open", err |-> "", st |-> EngineState, data |-> QueryCallbackData(FALSE)]

\* A variant of executeSQL that returns false on an engine error without
\* recording the diagnostic.
executeSQLSilent(op, sql) ==
    IF ~db_
    THEN /\ last_error_' = NotOpen
         /\ WReturn(op, sql, NotOpened, FALSE, NoResult)
    ELSE LET r == sqlite3_exec(sql, EngineState, FALSE, QueryCallbackData(FALSE))
         IN  /\ UNCHANGED last_error_
             /\ WReturn(op, sql, r, r.rc = "SQLITE_OK", NoResult)

executeSQL(op, sql) ==
    IF ~db_
    THEN /\ last_error_' = NotOpen
         /\ WReturn(op, sql, NotOpened, FALSE, NoResult)
    ELSE LET r == sqlite3_exec(sql, EngineState, FALSE, QueryCallbackData(FALSE))
         IN  IF r.rc # "SQLITE_OK"
             THEN /\ last_error_' = ExecError(r.err)
                  /\ WReturn(op, sql, r, FALSE, NoResult)
             ELSE /\ UNCHANGED last_error_
                  /\ WReturn(op, sql, r, TRUE, NoResult)

\* A variant of query that empties last_error_ when it succeeds.
queryClearing(sql) ==
    IF ~db_
    THEN /\ last_error_' = NotOpen
         /\ WReturn("query", sql, NotOpened, FALSE, NoResult)
    ELSE LET r == sqlite3_exec(sql, EngineState, TRUE, QueryCallbackData(FALSE))
         IN  IF r.rc # "SQLITE_OK"
             THEN /\ last_error_' = ExecError(r.err)
                  /\ WReturn("query", sql, r, FALSE, NoResult)
             ELSE /\ last_error_' = <<>>
                  /\ WReturn("query", sql, r, TRUE,
                             [column_names |-> r.data.column_names, rows |-> r.data.rows])

query(sql) ==
    IF ~db_
    THEN /\ last_error_' = NotOpen
         /\ WReturn("query", sql, NotOpened, FALSE, NoResult)
    ELSE LET r == sqlite3_exec(sql, EngineState, TRUE, QueryCallbackData(FALSE))
         IN  IF r.rc # "SQLITE_OK"
             THEN /\ last_error_' = ExecError(r.err)
                  /\ WReturn("query", sql, r, FALSE, NoResult)
             ELSE /\ UNCHANGED last_error_
                  /\ WReturn("query", sql, r, TRUE,
                             [column_names |-> r.data.column_names, rows |-> r.data.rows])

\* A variant of queryWithCallback without the test of db_: the engine is
\* called with the null handle and refuses it.
queryWithCallbackUnchecked(sql) ==
    LET r == IF db_ THEN sqlite3_exec(sql, EngineState, TRUE, QueryCallbackData(TRUE))
             ELSE [rc |-> "SQLITE_MISUSE", err |-> "bad parameter or other API misuse",
                   st |-> EngineState, data |-> QueryCallbackData(TRUE)]
    IN  IF r.rc # "SQLITE_OK"
        THEN /\ last_error_' = ExecError(r.err)
             /\ WReturn("queryWithCallback", sql, r, FALSE, NoResult)
        ELSE /\ UNCHANGED last_error_
             /\ WReturn("queryWithCallback", sql, r, TRUE, NoResult)

queryWithCallback(sql) ==
    IF ~db_
    THEN /\ last_error_' = NotOpen
         /\ WReturn("queryWithCallback", sql, NotOpened, FALSE, NoResult)
    ELSE LET r == sqlite3_exec(sql, EngineState, TRUE, QueryCallbackData(TRUE))
         IN  IF r.rc # "SQLITE_OK"
             THEN /\ last_error_' = ExecError(r.err)
                  /\ WReturn("queryWithCallback", sql, r, FALSE, NoResult)
             ELSE /\ UNCHANGED last_error_
                  /\ WReturn("queryWithCallback", sql, r, TRUE, NoResult)

\* The public calls that build one statement and run it through executeSQL.
insert(row) ==
    /\ Len(wtable) < MaxWRows
    /\ executeSQL("insert", <<Stmt("insert", <<>>, row)>>)
remove(id) == executeSQL("remove", <<Stmt("delete", <<>>, <<id, NullPtr>>)>>)
beginTransaction == executeSQL("beginTransaction", <<Stmt("begin", <<>>, <<>>)>>)
commitTransaction == executeSQL("commitTransaction", <<Stmt("commit", <<>>, <<>>)>>)
rollbackTransaction == executeSQL("rollbackTransaction", <<Stmt("rollback", <<>>, <<>>)>>)

NextWrap ==
    \/ \E row \in WRows : insert(row) /\ UNCHANGED exceptW
    \/ \E id \in WIds : remove(id) /\ UNCHANGED exceptW
    \/ beginTransaction /\ UNCHANGED exceptW
    \/ commitTransaction /\ UNCHANGED exceptW
    \/ rollbackTransaction /\ UNCHANGED exceptW
    \/ \E sql \in QueryTexts : query(sql) /\ UNCHANGED exceptW
    \/ \E sql \in QueryTexts : queryWithCallback(sql) /\ UNCHANGED exceptW

WrapInit ==
    /\ CoordInit /\ TMInit /\ RInit("multi") /\ StInit(TRUE) /\ RdInit
    /\ \E opened \in BOOLEAN : SQLiteWrapperImpl(opened)
SpecWrap == WrapInit /\ [][NextWrap]_allVars

\* The text every produced value is stored as.
AsText(argv) == [i \in 1..Len(argv) |-> IF argv[i] = NullPtr THEN "NULL" ELSE argv[i]]

\* The columns of the result a text asks for: those of its first SELECT.
RECURSIVE ResultColumns(_)
ResultColumns(sql) ==
    IF sql = <<>> THEN <<>>
    ELSE IF Head(sql).kind = "select"
         THEN [j \in 1..Len(Head(sql).cols) |-> WColumns[Head(sql).cols[j]]]
         ELSE ResultColumns(Tail(sql))

\* C25: a wrapper call that hits an engine error reports failure (false, or
\* no result), and last_error_ right after it is that call's diagnostic.
C25_ErrorReported ==
    (wobs.op # "none" /\ wobs.rc = "SQLITE_ERROR") =>
        /\ ~wobs.ok
        /\ wobs.result = NoResult
        /\ last_error_ = ExecError(wobs.err)

C25_Witness ==
    /\ wobs.op = "commitTransaction"
    /\ wobs.rc = "SQLITE_ERROR"
    /\ last_error_ = ExecError("cannot commit - no transaction is active")
    /\ Len(wtable) = 1

\* C26: queryWithCallback calls the handler once per row the engine
\* produced, in that order, each time with the column names and that row's
\* values, one per column.
C26_HandlerGetsEachRow ==
    (wobs.op = "queryWithCallback" /\ wobs.ok) =>
        /\ Len(wobs.calls) = Len(wobs.produced)
        /\ \A i \in 1..Len(wobs.calls) :
               /\ wobs.calls[i].column_names = wobs.produced[i].col_names
               /\ wobs.calls[i].row_values = AsText(wobs.produced[i].argv)

\* C27: a successful query returns the produced rows in order, every row
\* as wide as the column names, NULL as the text "NULL", and the column
\* names of the result; a failing query returns no result.
C27_QueryResult ==
    wobs.op = "query" =>
        IF wobs.ok
        THEN /\ wobs.rc = "SQLITE_OK"
             /\ wobs.result.rows = [i \in 1..Len(wobs.produced) |-> AsText(wobs.produced[i].argv)]
             /\ \A i \in 1..Len(wobs.result.rows) :
                    Len(wobs.result.rows[i]) = Len(wobs.result.column_names)
             /\ wobs.result.column_names = ResultColumns(wobs.sql)
        ELSE wobs.result = NoResult

\* C38: a wrapper whose database did not open stays closed for good: every
\* call on it returns false or no result, calls no handler, sets the last
\* error to the not-open message and leaves the engine alone.
C38_ClosedForGood ==
    [][~db_ =>
          /\ ~db_'
          /\ wtable' = wtable /\ wtxn' = wtxn /\ wsaved' = wsaved
          /\ wobs'.op # "none" =>
                 /\ ~wobs'.ok
                 /\ wobs'.rc = "not open"
                 /\ wobs'.result = [column_names |-> <<>>, rows |-> <<>>]
                 /\ wobs'.calls = <<>> /\ wobs'.produced = <<>>
                 /\ last_error_' = <<"database not open">>]_allVars

C38_Witness ==
    /\ ~db_
    /\ wobs.op = "queryWithCallback"
    /\ wobs.sql = <<Stmt("select", <<1, 2>>, <<>>)>>
    /\ last_error_ = <<"database not open">>

\* C39: a wrapper call that succeeds leaves the last-error text as it was,
\* and one that fails sets it to its own diagnostic, so the text is always
\* that of the most recent failed call, and empty when a wrapper that
\* opened has had no failed call.
C39_LastErrorKept ==
    [][wobs'.op # "none" =>
          IF wobs'.ok THEN last_error_' = last_error_
          ELSE last_error_' = IF wobs'.rc = "not open" THEN <<"database not open">>
                              ELSE <<"SQL exec error: ", wobs'.err>>]_allVars

\* A query succeeds after a failed commit, and the commit's diagnostic is
\* still the last error.
C39_Witness ==
    /\ wobs.op = "query" /\ wobs.ok
    /\ Len(wobs.result.rows) = 2
    /\ last_error_ = ExecError("cannot commit - no transaction is active")

(***************************************************************************)
(* Singletons: getInstance() through std::call_once, the registry's        *)
(* constructor opening its connections, the Table Managers' constructors   *)
(* taking a handle and compiling their statements, getConnection, and the  *)
(* destructors at process teardown.                                        *)
(***************************************************************************)
\* The table whose connection a Table Manager's constructor asks for.
TableOfOrders(kind, m) == IF kind = "single" THEN "shared" ELSE "ORDERS"

TableOf(kind, m) ==
    IF kind = "single" THEN "shared"
    ELSE CASE m = "orders" -> "ORDERS"
           [] m = "products" -> "PRODUCTS"
           [] OTHER -> "USERS"

UserStmts == {"insert_stmt_", "select_all_stmt_", "select_by_id_stmt_",
              "select_by_username_stmt_", "update_stmt_", "delete_stmt_"}
OrderStmts == {"insert_stmt_", "select_all_stmt_", "select_by_user_id_stmt_",
               "select_by_status_stmt_", "select_by_id_stmt_", "update_status_stmt_",
               "update_amount_stmt_", "delete_stmt_", "total_amount_by_user_stmt_",
               "count_by_status_stmt_"}
ProductStmts == {"insert_stmt_", "select_all_stmt_", "select_by_price_range_stmt_",
                 "select_in_stock_stmt_", "select_by_id_stmt_", "select_by_name_stmt_",
                 "update_stmt_", "update_stock_stmt_", "update_price_stmt_",
                 "delete_stmt_", "increase_stock_stmt_", "decrease_stock_stmt_",
                 "get_stock_stmt_"}

\* The statements prepareStatements compiles ...
Prepared(kind, m) ==
    CASE m = "users" -> UserStmts
      [] m = "orders" -> OrderStmts
      [] OTHER -> IF kind = "single" THEN ProductStmts
                  ELSE {"insert_stmt_", "select_all_stmt_", "select_by_id_stmt_",
                        "update_stock_stmt_"}

\* ... and the ones finalizeStatements finalizes when they are not null.
Finalized(kind, m) ==
    CASE m = "users" -> UserStmts
      [] m = "orders" -> OrderStmts
      [] OTHER -> IF kind = "single" THEN ProductStmts
                  ELSE {"insert_stmt_", "select_all_stmt_", "select_by_id_stmt_",
                        "update_stock_stmt_"}

\* A holder drops its shared_ptr; the last one out runs SQLiteDeleter
\* (sqlite3_close_v2).
Release(hs, who) ==
    [h \in Handles |->
        IF who \in hs[h].holders
        THEN IF hs[h].holders = {who}
             THEN [state |-> "closed", holders |-> {}, closes |-> hs[h].closes + 1]
             ELSE [hs[h] EXCEPT !.holders = @ \ {who}]
        ELSE hs[h]]

RefObs(t, c, inst) ==
    [NoRObs EXCEPT !.thread = t, !.op = "getInstance", !.cls = c,
                   !.outcome = "ref", !.inst = inst]

\* return *instance_;
ReturnRef(t, c, inst) ==
    /\ rpc' = [rpc EXCEPT ![t] = "idle"]
    /\ robs' = RefObs(t, c, inst)

\* The registry's constructor throws: the members built so far are
\* destroyed (the handles the map holds are released), call_once returns
\* exceptionally and leaves the flag unset; inside a Table Manager's
\* constructor the exception leaves that call_once the same way.
Throw(t, hs) ==
    /\ handles' = Release(hs, Registry)
    /\ connections_' = [k \in TableKeys |-> 0]
    /\ initialized_' = [c \in Classes |->
                           IF c \in {Registry, rgoal[t]} THEN "idle" ELSE initialized_[c]]
    /\ failures' = failures + 1
    /\ rpc' = [rpc EXCEPT ![t] = "idle"]
    /\ robs' = [NoRObs EXCEPT !.thread = t, !.op = "getInstance", !.cls = rgoal[t],
                              !.outcome = "threw"]
    /\ UNCHANGED <<rkind, instance_, db_connection_, live, rgoal, phase, destroyed,
                   built>>

\* A thread calls X::getInstance().
GetInstance(t, c) ==
    /\ phase = "running"
    /\ rpc[t] = "idle"
    /\ c \in {Registry} \cup TableManagers(rkind)
    /\ rgoal' = [rgoal EXCEPT ![t] = c]
    /\ rpc' = [rpc EXCEPT ![t] = IF c = Registry THEN "reg_once" ELSE "mgr_once"]
    /\ robs' = NoRObs
    /\ UNCHANGED <<rkind, initialized_, instance_, connections_, db_connection_, handles,
                   nextHandle, live, phase, destroyed, failures, built>>

\* std::call_once(initialized_, ...) of a Table Manager: a set flag returns
\* at once; otherwise one thread at a time becomes the active execution and
\* enters the constructor, whose first member initializer calls the
\* registry's getInstance(); the others wait.
MgrCallOnceWith(t, once) ==
    /\ rpc[t] = "mgr_once"
    /\ LET c == rgoal[t]
       IN  IF initialized_[c] = "done"
           THEN /\ ReturnRef(t, c, instance_[c])
                /\ UNCHANGED <<rkind, initialized_, instance_, connections_, db_connection_,
                               handles, nextHandle, live, rgoal, phase, destroyed,
                               failures, built>>
           ELSE /\ once => initialized_[c] = "idle"
                /\ initialized_' = [initialized_ EXCEPT ![c] = "running"]
                /\ rpc' = [rpc EXCEPT ![t] = "reg_once"]
                /\ robs' = NoRObs
                /\ UNCHANGED <<rkind, instance_, connections_, db_connection_, handles,
                               nextHandle, live, rgoal, phase, destroyed, failures,
                               built>>

MgrCallOnce(t) == MgrCallOnceWith(t, TRUE)

\* std::call_once(initialized_, ...) of the registry.
RegCallOnceWith(t, once) ==
    /\ rpc[t] = "reg_once"
    /\ IF initialized_[Registry] = "done"
       THEN IF rgoal[t] = Registry
            THEN /\ ReturnRef(t, Registry, instance_[Registry])
                 /\ UNCHANGED <<rkind, initialized_, instance_, connections_,
                                db_connection_, handles, nextHandle, live, rgoal, phase,
                                destroyed, failures, built>>
            ELSE /\ rpc' = [rpc EXCEPT ![t] = "mgr_ctor"]
                 /\ robs' = NoRObs
                 /\ UNCHANGED <<rkind, initialized_, instance_, connections_,
                                db_connection_, handles, nextHandle, live, rgoal, phase,
                                destroyed, failures, built>>
       ELSE /\ once => initialized_[Registry] = "idle"
            /\ initialized_' = [initialized_ EXCEPT ![Registry] = "running"]
            /\ rpc' = [rpc EXCEPT ![t] = "reg_ctor"]
            /\ robs' = NoRObs
            /\ UNCHANGED <<rkind, instance_, connections_, db_connection_, handles,
                           nextHandle, live, rgoal, phase, destroyed, failures, built>>

\* call_once without the exclusion: every thread that finds the flag unset
\* runs the constructor.
RegCallOnceRacy(t) == RegCallOnceWith(t, FALSE)

RegCallOnce(t) == RegCallOnceWith(t, TRUE)

OpenOutcomes == {"ok", "open_failed", "no_handle"}
Opened(holders) == [state |-> "open", holders |-> holders, closes |-> 0]
ClosedAgain == [state |-> "closed", holders |-> {}, closes |-> 1]

\* sqlite3_open_v2 and what follows it in both registries: on failure the
\* handle, if there is one, is closed and the error thrown.
OpenStep(t, table, outcome, hs) ==
    /\ rpc[t] = "reg_ctor"
    /\ table \in Registered(rkind)
    /\ connections_[table] = 0
    /\ nextHandle <= MaxHandles
    /\ outcome # "ok" => failures < MaxOpenFailures
    /\ CASE outcome = "ok" ->
                /\ handles' = [handles EXCEPT ![nextHandle] = Opened({Registry})]
                /\ nextHandle' = nextHandle + 1
                /\ connections_' = [connections_ EXCEPT ![table] = nextHandle]
                /\ robs' = NoRObs
                /\ UNCHANGED <<rkind, initialized_, instance_, db_connection_, live, rpc,
                               rgoal, phase, destroyed, failures, built>>
         [] outcome = "no_handle" ->
                /\ Throw(t, handles)
                /\ UNCHANGED nextHandle
         [] OTHER ->
                /\ Throw(t, [handles EXCEPT ![nextHandle] = hs])
                /\ nextHandle' = nextHandle + 1

\* DatabaseManager::openDatabase.
openDatabase(t, outcome) ==
    /\ rkind = "single"
    /\ outcome \in OpenOutcomes
    /\ OpenStep(t, "shared", outcome, ClosedAgain)

\* MultiConnectionDatabaseManager::openConnection for one entry of
\* db_paths_ (an unordered_map: any order): open, then configureConnection
\* on the raw handle, then the entry in connections_. configureConnection
\* throws while the raw pointer is the only reference to the open handle.
openConnection(t, table, outcome) ==
    /\ rkind = "multi"
    /\ outcome \in OpenOutcomes \cup {"configure_failed"}
    /\ OpenStep(t, table, outcome,
                IF outcome = "configure_failed" THEN Opened({}) ELSE ClosedAgain)

\* The rest of the registry's constructor once every connection is open
\* (configureDatabase and initializeTables, or initializeAllTables), and the
\* assignment to instance_ that ends the call_once.
RegCtorDone(t, ok) ==
    /\ rpc[t] = "reg_ctor"
    /\ \A k \in Registered(rkind) : connections_[k] # 0
    /\ IF ok
       THEN /\ built' = [built EXCEPT ![Registry] = @ + 1]
            /\ instance_' = [instance_ EXCEPT ![Registry] = built[Registry] + 1]
            /\ initialized_' = [initialized_ EXCEPT ![Registry] = "done"]
            /\ IF rgoal[t] = Registry
               THEN ReturnRef(t, Registry, built[Registry] + 1)
               ELSE /\ rpc' = [rpc EXCEPT ![t] = "mgr_ctor"]
                    /\ robs' = NoRObs
            /\ UNCHANGED <<rkind, connections_, db_connection_, handles, nextHandle,
                           live, rgoal, phase, destroyed, failures>>
       ELSE /\ failures < MaxOpenFailures
            /\ Throw(t, handles)
            /\ UNCHANGED nextHandle

\* The Table Manager's constructor after the registry's getInstance()
\* returned: getConnection for its table, prepareStatements, and the
\* assignment to instance_.
MgrCtor(t) ==
    /\ rpc[t] = "mgr_ctor"
    /\ LET c == rgoal[t]
           h == connections_[TableOf(rkind, c)]
       IN  IF h = 0
           THEN /\ initialized_' = [initialized_ EXCEPT ![c] = "idle"]
                /\ rpc' = [rpc EXCEPT ![t] = "idle"]
                /\ robs' = [NoRObs EXCEPT !.thread = t, !.op = "getInstance", !.cls = c,
                                          !.outcome = "threw"]
                /\ UNCHANGED <<rkind, instance_, connections_, db_connection_, handles,
                               nextHandle, live, rgoal, phase, destroyed, failures,
                               built>>
           ELSE /\ handles' = [handles EXCEPT ![h].holders = @ \cup {c}]
                /\ db_connection_' = [db_connection_ EXCEPT ![c] = h]
                /\ live' = [live EXCEPT ![h] =
                               @ \cup {<<c, st>> : st \in Prepared(rkind, c)}]
                /\ built' = [built EXCEPT ![c] = @ + 1]
                /\ instance_' = [instance_ EXCEPT ![c] = built[c] + 1]
                /\ initialized_' = [initialized_ EXCEPT ![c] = "done"]
                /\ ReturnRef(t, c, built[c] + 1)
                /\ UNCHANGED <<rkind, connections_, nextHandle, rgoal, phase, destroyed,
                               failures>>

\* getConnection on the constructed registry: the entry of the table, or
\* std::runtime_error when connections_.find(table) finds none.
getConnection(t, table) ==
    /\ phase = "running"
    /\ rpc[t] = "idle"
    /\ instance_[Registry] # 0
    /\ table \in (IF rkind = "single" THEN {"shared"} ELSE Registered(rkind) \cup {"OTHER"})
    /\ robs' = [NoRObs EXCEPT !.thread = t, !.op = "getConnection", !.table = table,
                              !.outcome = IF connections_[table] # 0 THEN "handle" ELSE "threw",
                              !.handle = connections_[table], !.made = nextHandle - 1]
    /\ UNCHANGED <<rkind, initialized_, instance_, connections_, db_connection_, handles,
                   nextHandle, live, rpc, rgoal, phase, destroyed, failures, built>>

\* The process ends: the static instance_ pointers are destroyed, in an
\* order the program does not fix.
ExitProcess ==
    /\ phase = "running"
    /\ \A t \in Threads : rpc[t] = "idle"
    /\ phase' = "teardown"
    /\ robs' = NoRObs
    /\ UNCHANGED <<rkind, initialized_, instance_, connections_, db_connection_, handles,
                   nextHandle, live, rpc, rgoal, destroyed, failures, built>>

\* A Table Manager's destructor: its body (finalizeStatements), then the
\* members, db_connection_ among them.
DestroyManagerWith(c, finalize) ==
    /\ phase = "teardown"
    /\ c \in TableManagers(rkind)
    /\ instance_[c] # 0
    /\ c \notin destroyed
    /\ live' = IF finalize
               THEN [live EXCEPT ![db_connection_[c]] =
                        @ \ {<<c, st>> : st \in Finalized(rkind, c)}]
               ELSE live
    /\ handles' = Release(handles, c)
    /\ destroyed' = destroyed \cup {c}
    /\ robs' = NoRObs
    /\ UNCHANGED <<rkind, initialized_, instance_, connections_, db_connection_,
                   nextHandle, rpc, rgoal, phase, failures, built>>

\* A destructor that leaves the statements to the connection.
DestroyManagerNoFinalize(c) == DestroyManagerWith(c, FALSE)

DestroyManager(c) == DestroyManagerWith(c, TRUE)

\* The registry's destructor: the map (or db_connection_) releases its
\* handles.
DestroyRegistry ==
    /\ phase = "teardown"
    /\ instance_[Registry] # 0
    /\ Registry \notin destroyed
    /\ handles' = Release(handles, Registry)
    /\ destroyed' = destroyed \cup {Registry}
    /\ robs' = NoRObs
    /\ UNCHANGED <<rkind, initialized_, instance_, connections_, db_connection_,
                   nextHandle, live, rpc, rgoal, phase, failures, built>>

NextReg ==
    \/ \E t \in Threads, c \in Classes : GetInstance(t, c) /\ UNCHANGED exceptReg
    \/ \E t \in Threads : MgrCallOnce(t) /\ UNCHANGED exceptReg
    \/ \E t \in Threads : RegCallOnce(t) /\ UNCHANGED exceptReg
    \/ \E t \in Threads, o \in OpenOutcomes : openDatabase(t, o) /\ UNCHANGED exceptReg
    \/ \E t \in Threads, k \in TableKeys, o \in OpenOutcomes \cup {"configure_failed"} :
           openConnection(t, k, o) /\ UNCHANGED exceptReg
    \/ \E t \in Threads, ok \in BOOLEAN : RegCtorDone(t, ok) /\ UNCHANGED exceptReg
    \/ \E t \in Threads : MgrCtor(t) /\ UNCHANGED exceptReg
    \/ \E t \in Threads, k \in TableKeys : getConnection(t, k) /\ UNCHANGED exceptReg
    \/ ExitProcess /\ UNCHANGED exceptReg
    \/ \E c \in Classes : DestroyManager(c) /\ UNCHANGED exceptReg
    \/ DestroyRegistry /\ UNCHANGED exceptReg

RegInit ==
    /\ CoordInit /\ TMInit /\ WInit /\ StInit(TRUE) /\ RdInit
    /\ \E kind \in {"single", "multi"} : RInit(kind)
SpecReg == RegInit /\ [][NextReg]_allVars

\* C21: when opening a connection fails while the registry is constructed,
\* the handle opened for the failing table is closed before the error
\* reaches the caller, the registry keeps no entry, and the handles opened
\* earlier for other tables are released: no handle is left open.
C21_FailedOpenReleased ==
    (robs.op = "getInstance" /\ robs.outcome = "threw") =>
        /\ \A h \in Handles : handles[h].state # "open"
        /\ \A k \in TableKeys : connections_[k] = 0

\* C36: a registry construction that failed after a handle was opened (a
\* pragma or the table initialisation failed) leaves no open handle: while
\* no registry exists and no constructor is running, every handle that was
\* opened has been closed, exactly once.
C36_NoHandleLeftOpen ==
    (initialized_[Registry] = "idle" /\ failures > 0) =>
        \A h \in Handles :
            handles[h].state = "none" \/ (handles[h].state = "closed" /\ handles[h].closes = 1)

\* C23: for every class the constructor completes at most once, instance_
\* is never reassigned, a returning getInstance() gives the one instance,
\* and a getInstance() that ended in an exception leaves no instance and
\* the once-flag unset, so that the next call constructs again.
C23_ConstructedOnce ==
    [][/\ \A c \in Classes :
              /\ built'[c] <= 1
              /\ instance_[c] # 0 => instance_'[c] = instance_[c]
              /\ (initialized_'[c] = "done") <=> (instance_'[c] # 0)
       /\ (robs'.op = "getInstance" /\ robs'.outcome = "ref") =>
              /\ robs'.inst # 0
              /\ robs'.inst = instance_'[robs'.cls]
              /\ built'[robs'.cls] = 1
       /\ (robs'.op = "getInstance" /\ robs'.outcome = "threw") =>
              /\ instance_'[robs'.cls] = 0
              /\ initialized_'[robs'.cls] = "idle"]_allVars

\* A first construction failed, a later getInstance() built the registry,
\* and the thread that ran the constructor returns while the other one is
\* still waiting in call_once.
C23_Witness ==
    /\ failures = 1
    /\ robs.op = "getInstance" /\ robs.outcome = "ref" /\ robs.cls = Registry
    /\ built[Registry] = 1
    /\ \E t \in Threads : t # robs.thread /\ rpc[t] = "reg_once"

\* The table a Table Manager works on, by the manager's name.
C24_OwnTable(m) ==
    IF rkind = "single" THEN "shared"
    ELSE CASE m = "users" -> "USERS"
           [] m = "orders" -> "ORDERS"
           [] OTHER -> "PRODUCTS"

\* C24: once the registry is constructed its handles are fixed: every
\* registered table has one open handle that never changes, distinct tables
\* have distinct handles, getConnection returns the table's handle, every
\* Table Manager holds the handle of its own table, and getConnection of an
\* unregistered table throws and creates nothing.
C24_HandlesFixed ==
        [][/\ instance_[Registry] # 0 => connections_' = connections_
           /\ (instance_'[Registry] # 0 /\ phase' = "running") =>
                  /\ \A k \in TableKeys :
                         IF k \in Registered(rkind')
                         THEN /\ connections_'[k] # 0
                              /\ handles'[connections_'[k]].state = "open"
                         ELSE connections_'[k] = 0
                  /\ \A j, k \in Registered(rkind') :
                         j # k => connections_'[j] # connections_'[k]
                  /\ \A m \in TableManagers(rkind') :
                         instance_'[m] # 0 => db_connection_'[m] = connections_'[C24_OwnTable(m)]
           /\ robs'.op = "getConnection" =>
                  IF robs'.table \in Registered(rkind')
                  THEN /\ robs'.outcome = "handle"
                       /\ robs'.handle = connections_'[robs'.table]
                  ELSE /\ robs'.outcome = "threw"
                       /\ nextHandle' = nextHandle]_allVars

C24_Witness ==
    /\ robs.op = "getConnection" /\ robs.table = "OTHER" /\ robs.outcome = "threw"
    /\ instance_["products"] # 0
    /\ instance_["orders"] # 0
    /\ db_connection_["products"] # db_connection_["orders"]

\* C22: whatever the order in which the registry and the Table Managers
\* are destroyed, a connection is closed only when no statement compiled on
\* it is left unfinalized and no holder is left, it is closed at most once,
\* and when all singletons are gone every registered connection has been
\* closed exactly once.
C22_FinalizedBeforeClose ==
    /\ \A h \in Handles :
           /\ handles[h].closes <= 1
           /\ handles[h].state = "closed" => (live[h] = {} /\ handles[h].holders = {})
           /\ handles[h].holders # {} => handles[h].state = "open"
    /\ (phase = "teardown" /\ \A c \in Classes : instance_[c] # 0 => c \in destroyed) =>
           \A k \in TableKeys :
               connections_[k] # 0 =>
                   /\ handles[connections_[k]].state = "closed"
                   /\ handles[connections_[k]].closes = 1

\* The registry went first: the users connection is closed, the orders
\* connection is kept open by its manager, whose statements are still
\* compiled on it.
C22_Witness ==
    /\ rkind = "multi"
    /\ phase = "teardown"
    /\ Registry \in destroyed
    /\ "orders" \notin destroyed /\ instance_["orders"] # 0
    /\ instance_["products"] # 0 /\ "products" \in destroyed
    /\ handles[connections_["USERS"]].state = "closed"
    /\ handles[connections_["PRODUCTS"]].state = "closed"
    /\ handles[db_connection_["orders"]].state = "open"
    /\ live[db_connection_["orders"]] # {}

(***************************************************************************)
(* createUser and createUsersTransaction at the level of insert_stmt_.     *)
(* The manager's mutex makes each of them one step.                        *)
(***************************************************************************)
StKeys == 1..MaxKey
UserPairs == StKeys \X StKeys
UserBatches == UNION {[1..n -> UserPairs] : n \in 0..MaxBatch}

\* sqlite3_reset: back to READY; the bindings stay.
sqlite3_reset(stmt) == [stmt EXCEPT !.state = "READY"]

\* sqlite3_bind_text: refused (SQLITE_MISUSE) on a statement that was
\* stepped and not reset, which keeps its old parameter.
sqlite3_bind_text(stmt, i, v) ==
    IF stmt.state = "READY" THEN [stmt EXCEPT !.bound[i] = v] ELSE stmt

\* sqlite3_step of INSERT INTO users (username, email) VALUES (?, ?): both
\* columns are UNIQUE NOT NULL. A halted statement is first reset by the
\* engine, or refused, as the build has it.
sqlite3_step(stmt, table) ==
    IF stmt.state = "HALT" /\ ~autoreset
    THEN [rc |-> "SQLITE_MISUSE", stmt |-> stmt, table |-> table]
    ELSE IF \/ Unbound \in {stmt.bound[1], stmt.bound[2]}
            \/ \E r \in table : r[1] = stmt.bound[1] \/ r[2] = stmt.bound[2]
         THEN [rc |-> "SQLITE_CONSTRAINT", stmt |-> [stmt EXCEPT !.state = "HALT"],
               table |-> table]
         ELSE [rc |-> "SQLITE_DONE", stmt |-> [stmt EXCEPT !.state = "HALT"],
               table |-> table \cup {<<stmt.bound[1], stmt.bound[2]>>}]

\* reset, bind both parameters, step.
InsertUser(stmt, table, user, reset) ==
    sqlite3_step(sqlite3_bind_text(
                     sqlite3_bind_text(IF reset THEN sqlite3_reset(stmt) ELSE stmt,
                                       1, user[1]),
                     2, user[2]),
                 table)

StReturn(op, args, ok) ==
    stobs' = [op |-> op, args |-> args, ok |-> ok, before |-> utable,
              prevOp |-> stobs.op, prevOk |-> stobs.ok]

createUserWith(username, email, reset) ==
    LET r == InsertUser(insert_stmt_, utable, <<username, email>>, reset)
    IN  /\ insert_stmt_' = r.stmt
        /\ utable' = r.table
        /\ StReturn("create", <<<<username, email>>>>, r.rc = "SQLITE_DONE")
        /\ UNCHANGED autoreset

\* createUser without the sqlite3_reset.
createUserNoReset(username, email) == createUserWith(username, email, FALSE)

createUser(username, email) == createUserWith(username, email, TRUE)

\* The loop of createUsersTransaction: stops at the first insert that does
\* not end in SQLITE_DONE.
RECURSIVE InsertLoop(_, _, _)
InsertLoop(users, stmt, table) ==
    IF users = <<>> THEN [ok |-> TRUE, stmt |-> stmt, table |-> table]
    ELSE LET r == InsertUser(stmt, table, Head(users), TRUE)
         IN  IF r.rc # "SQLITE_DONE"
             THEN [ok |-> FALSE, stmt |-> r.stmt, table |-> r.table]
             ELSE InsertLoop(Tail(users), r.stmt, r.table)

\* BEGIN, the loop, then COMMIT, or ROLLBACK to the table as it was.
createUsersTransaction(users) ==
    LET r == InsertLoop(users, insert_stmt_, utable)
    IN  /\ insert_stmt_' = r.stmt
        /\ utable' = IF r.ok THEN r.table ELSE utable
        /\ StReturn("batch", users, r.ok)
        /\ UNCHANGED autoreset

NextStmt ==
    \/ \E u \in UserPairs : createUser(u[1], u[2]) /\ UNCHANGED exceptSt
    \/ \E b \in UserBatches : createUsersTransaction(b) /\ UNCHANGED exceptSt

StmtInit ==
    /\ CoordInit /\ TMInit /\ WInit /\ RInit("multi") /\ RdInit
    /\ \E auto \in BOOLEAN : StInit(auto)
SpecStmt == StmtInit /\ [][NextStmt]_allVars

\* What a sequence of inserts does to a table, from the table and the
\* rows alone.
RECURSIVE C29_Expected(_, _)
C29_Expected(rows, table) ==
    IF rows = <<>> THEN [ok |-> TRUE, table |-> table]
    ELSE IF \E r \in table : r[1] = Head(rows)[1] \/ r[2] = Head(rows)[2]
         THEN [ok |-> FALSE, table |-> table]
         ELSE C29_Expected(Tail(rows), table \cup {Head(rows)})

\* C29: what createUser or createUsersTransaction returns, and the table it
\* leaves, follow from its arguments and the table before it alone,
\* whatever the previous use of insert_stmt_ bound or returned.
C29_OwnArgumentsOnly ==
    stobs.op # "none" =>
        LET e == C29_Expected(stobs.args, stobs.before)
        IN  /\ stobs.ok = e.ok
            /\ utable = IF e.ok THEN e.table ELSE stobs.before

\* A create with valid arguments succeeds right after a batch that was
\* aborted by a failing insert.
C29_Witness ==
    /\ stobs.op = "create" /\ stobs.ok
    /\ stobs.prevOp = "batch" /\ ~stobs.prevOk
    /\ Cardinality(utable) = 2

(***************************************************************************)
(* The read operations of UserManager at the level of their statements.    *)
(***************************************************************************)
\* sqlite3_step of a SELECT with n result rows: the next row (SQLITE_ROW,
\* the cursor stays open on it) or, after the last one, SQLITE_DONE.
SelectStep(stmt, n) ==
    LET at == IF stmt.state = "ROW" THEN stmt.pos ELSE 0
    IN  IF at < n
        THEN [rc |-> "SQLITE_ROW", stmt |-> [stmt EXCEPT !.state = "ROW", !.pos = at + 1]]
        ELSE [rc |-> "SQLITE_DONE", stmt |-> [stmt EXCEPT !.state = "HALT", !.pos = 0]]

\* while (sqlite3_step(select_all_stmt_) == SQLITE_ROW) { ... }
RECURSIVE StepWhileRow(_, _)
StepWhileRow(stmt, n) ==
    LET r == SelectStep(stmt, n)
    IN  IF r.rc = "SQLITE_ROW" THEN StepWhileRow(r.stmt, n) ELSE r.stmt

\* getAllUsers: reset, then step until the engine stops giving rows.
getAllUsers ==
    /\ select_all_stmt_' = StepWhileRow(sqlite3_reset(select_all_stmt_), Cardinality(utable))
    /\ stobs' = [op |-> "getAll", args |-> <<>>, ok |-> utable # {}, before |-> utable,
                 prevOp |-> stobs.op, prevOk |-> stobs.ok]
    /\ UNCHANGED select_by_username_stmt_

\* getUserByUsername: reset, bind, one step; on SQLITE_ROW the columns are
\* read and the function returns.
getUserByUsername(username) ==
    LET bound == sqlite3_bind_text(sqlite3_reset(select_by_username_stmt_), 1, username)
        r == SelectStep(bound, Cardinality({u \in utable : u[1] = bound.bound[1]}))
    IN  /\ select_by_username_stmt_' = r.stmt
        /\ stobs' = [op |-> "getByUsername", args |-> <<<<username, username>>>>,
                     ok |-> r.rc = "SQLITE_ROW", before |-> utable,
                     prevOp |-> stobs.op, prevOk |-> stobs.ok]
        /\ UNCHANGED select_all_stmt_

NextRead ==
    \/ \E u \in UserPairs : createUser(u[1], u[2]) /\ UNCHANGED exceptSt
    \/ getAllUsers /\ UNCHANGED exceptRd
    \/ \E u \in StKeys : getUserByUsername(u) /\ UNCHANGED exceptRd

SpecRead == Init /\ [][NextRead]_allVars

\* C37: when a read operation returns, no statement of the manager is left
\* on a row: each was stepped to the end or reset, and no read cursor stays
\* open.
C37_NoOpenCursor ==
    stobs.op \in {"getAll", "getByUsername"} =>
        /\ select_all_stmt_.state # "ROW"
        /\ select_by_username_stmt_.state # "ROW"

====
